---- MODULE Spec2Model ----
(***************************************************************************)
(* Voice check-in: the TTSService dispatcher with its two providers        *)
(* (src/motivational-prompts.js) and the DailyHabitTracker session that    *)
(* drives it (src/unnamed/part_001); and the VoiceGoalsInput object that   *)
(* takes the weekly goals by voice (src/voice-goals-input.js).             *)
(*                                                                         *)
(* JavaScript is single-threaded: a handler runs to its next await without *)
(* interruption.  One action is one such run: an API call of the client,   *)
(* or the delivery of one event (fetch settled, timer fired, utterance     *)
(* ended, recognizer result ...) together with every continuation that     *)
(* this event resumes.                                                     *)
(***************************************************************************)
EXTENDS Integers, Sequences, FiniteSets, TLC

VARIABLES tts, fishAudio, synth, calls, trk, recognition, obs, voiceGoalsInput,
          clock, habitCheckin

vars == <<tts, fishAudio, synth, calls, trk, recognition, obs, voiceGoalsInput,
          clock, habitCheckin>>

(* ------------------------------ bounds --------------------------------- *)

\* speak() calls that may be in flight (or still audible) at the same time
MaxCalls == 2
\* highest habit slot the fetched stacks use (the code reads habit_1..habit_5)
MaxKey == 2
\* check-in sessions started on one tracker, one after the other
MaxSessions == 1
\* startDailyCheck() calls counted while the habit-stack fetch is in flight
MaxRestarts == 1
\* how far currentHabitIndex may run past the last habit
MaxOverrun == 1
\* POSTs of the daily log awaiting their response at the same time
MaxPosting == 1
\* POSTs of the daily log counted in one session
MaxPosts == 2
\* startDailyCheck() calls counted that were refused for lack of a user id
MaxRefused == 1
\* sessions started one after the other on the tracker of SpecDay
MaxSessionsDay == 2
\* words in an utterance the classification is tried on
MaxWords == 2
\* final results the recognizer of VoiceGoalsInput delivers in one run
MaxResults == 2
\* POSTs to the goals endpoint awaiting their response at the same time
MaxSending == 1
\* words in a transcript the goals are extracted from
MaxSaid == 3
\* hours the clock runs on from 2023-07-29T00:00Z
MaxHours == 216
\* prompts of HabitCheckin being spoken, and fetches of its habit stack in
\* flight, at the same time
MaxPending == 2
\* largest maxRetries a client passes to findVoiceWithRetry
MaxRetriesArg == 7

Calls == 1..MaxCalls
Keys == 1..MaxKey

(* ------------------------------ helpers -------------------------------- *)

Min(S) == CHOOSE x \in S : \A y \in S : x <= y

RECURSIVE SeqOfSet(_)
SeqOfSet(S) == IF S = {} THEN <<>> ELSE <<Min(S)>> \o SeqOfSet(S \ {Min(S)})

Without(q, c) == SelectSeq(q, LAMBDA x : x # c)

InSeq(q, c) == \E i \in 1..Len(q) : q[i] = c

NoCont == [kind |-> "none", habit |-> 0]

ClientCont == [kind |-> "client", habit |-> 0]

\* defaults of the parameters of findVoiceWithRetry (ms), and the cap of its delay
defaultMaxRetries == 5
defaultRetryDelay == 100
maxRetryDelay == 1000

\* a delay of n ms; delays are fractions, so that a product by 1.5 is exact
Ms(n) == [num |-> n, den |-> 1]

\* the activation of findVoiceWithRetry of a call: its parameters and locals,
\* the delays it has passed to setTimeout so far, and who awaits its result
NoLookup == [caller |-> "none", maxRetries |-> 0, retries |-> 0, retryDelay |-> Ms(0),
             waited |-> <<>>, voice |-> "none"]

FreeCall == [pc |-> "free", audio |-> "none", attempts |-> <<>>, stopped |-> FALSE,
             outcome |-> "none", onComplete |-> 0, onError |-> 0, cont |-> NoCont,
             lookup |-> NoLookup]

Pending == {"fetch", "lookup", "timer", "queued", "cancelled"}

Settled == {"resolved", "rejected"}

(* The whole program state as one record, so that a handler can be written  *)
(* as the composition of the methods it calls, in the order of the code.    *)
World == [tts |-> tts, fishAudio |-> fishAudio, synth |-> synth, calls |-> calls,
          trk |-> trk, recognition |-> recognition, obs |-> obs, ok |-> TRUE,
          onError |-> 0, onComplete |-> 0, onAuthRequired |-> 0, requests |-> <<>>]

\* a settled call of the tracker whose audio is not audible any more
Gone(w, c) ==
  /\ w.calls[c].pc \in Settled
  /\ w.calls[c].audio # "playing"
  /\ w.calls[c].cont.kind # "client"

\* calls that are gone are forgotten, and with them the references to their
\* audio element (pause() on it has no effect any more)
Reap(w) ==
  [w EXCEPT !.calls = [c \in Calls |-> IF Gone(w, c) THEN FreeCall ELSE w.calls[c]],
            !.tts.currentAudio = IF @ # 0 /\ Gone(w, @) THEN 0 ELSE @,
            !.fishAudio.audioElement = IF @ # 0 /\ Gone(w, @) THEN 0 ELSE @]

\* w.ok is FALSE when the handler went beyond a bound of the model; w.onError,
\* w.onComplete and w.onAuthRequired count the callbacks the handler invokes,
\* w.requests holds the bodies of the POSTs it sends to the daily-log endpoint;
\* they are not part of the state
Commit(w) ==
  /\ w.ok
  /\ tts' = Reap(w).tts
  /\ fishAudio' = Reap(w).fishAudio
  /\ synth' = w.synth
  /\ calls' = Reap(w).calls
  /\ trk' = w.trk
  /\ recognition' = w.recognition
  /\ obs' = w.obs
  /\ voiceGoalsInput' = voiceGoalsInput
  /\ clock' = clock
  /\ habitCheckin' = habitCheckin

(* ------------------------- TTSService (dispatcher) --------------------- *)

\* TTSService.hasProviders
hasProviders(w) == Len(w.tts.providerNames) > 0

\* TTSService.getCurrentProvider: the provider's name, "null" without providers
getCurrentProvider(w) ==
  IF Len(w.tts.providerNames) = 0 THEN "null"
  ELSE w.tts.providerNames[w.tts.currentProviderIndex + 1]

\* the index switchToNextProvider moves to
NextProviderIndex(i, n) == (i + 1) % n

\* TTSService.switchToNextProvider (the caller tests length > 1 first)
switchToNextProvider(w) ==
  [w EXCEPT !.tts.currentProviderIndex =
              NextProviderIndex(@, Len(w.tts.providerNames))]

\* HTMLAudioElement.pause() on the element of call a (0 is null)
Pause(w, a) ==
  IF a # 0 /\ w.calls[a].audio = "playing"
  THEN [w EXCEPT !.calls[a].audio = "paused"] ELSE w

\* speechSynthesis.cancel(): every utterance leaves the queue and will get an
\* error event ('interrupted' for the one being spoken, 'canceled' otherwise)
SynthCancel(w) ==
  [w EXCEPT !.synth = <<>>,
            !.calls = [c \in Calls |->
                        IF InSeq(w.synth, c) THEN [w.calls[c] EXCEPT !.pc = "cancelled"]
                        ELSE w.calls[c]]]

\* FishAudioProvider.stop
FishAudioStop(w) ==
  IF w.fishAudio.audioElement # 0
  THEN [Pause(w, w.fishAudio.audioElement) EXCEPT !.fishAudio.audioElement = 0]
  ELSE w

\* WebSpeechProvider.stop
WebSpeechStop(w) == SynthCancel(w)

\* provider.stop() of the provider named p
ProviderStop(w, p) == IF p = "FishAudio" THEN FishAudioStop(w) ELSE WebSpeechStop(w)

\* TTSService.stop
Stop(w) ==
  IF getCurrentProvider(w) # "null" /\ w.tts.isPlaying
  THEN LET w1 == [Pause(w, w.tts.currentAudio) EXCEPT !.tts.currentAudio = 0]
           w2 == ProviderStop(w1, getCurrentProvider(w1))
       IN  [w2 EXCEPT !.tts.isPlaying = FALSE]
  ELSE w

\* WebSpeechProvider.speak once findVoiceWithRetry has returned: the utterance
\* is set up, synth.cancel() is called and the 50 ms timer is started
WebSpeechSubmit(w, c) == [SynthCancel(w) EXCEPT !.calls[c].pc = "timer"]

\* WebSpeechProvider.findVoice: a voice when the engine has a voice list (the
\* named one, one of the language, or the first), null when the list is empty
findVoice(w) == IF w.tts.voices THEN "found" ELSE "null"

\* the delay of the next retry with no cap: what C38 rules out
BackoffUncapped(retryDelay) ==
  [num |-> retryDelay.num * 3, den |-> retryDelay.den * 2]

\* retryDelay = Math.min(retryDelay * 1.5, 1000)
backoff(retryDelay) ==
  IF retryDelay.num * 3 > maxRetryDelay * retryDelay.den * 2
  THEN Ms(maxRetryDelay)
  ELSE [num |-> retryDelay.num * 3, den |-> retryDelay.den * 2]

\* WebSpeechProvider.findVoiceWithRetry up to its first await, or up to its
\* return when there is none: the call stays in "lookup" while it waits
findVoiceWithRetry(w, c, caller, maxRetries, retryDelay) ==
  LET voice == findVoice(w)
      frame == [caller |-> caller, maxRetries |-> maxRetries, retries |-> 0,
                retryDelay |-> retryDelay, waited |-> <<>>, voice |-> voice]
  IN  IF voice = "null" /\ 0 < maxRetries
      THEN [w EXCEPT !.calls[c].pc = "lookup",
                     !.calls[c].lookup = [frame EXCEPT !.waited = <<retryDelay>>]]
      ELSE [w EXCEPT !.calls[c].lookup = frame]

\* TTSService.tryCurrentProvider up to its await: provider.speak(text) is called
\* on the current provider.  FishAudio starts its fetch.  WebSpeech looks for a
\* voice: findVoice() answers at once when the voice list is loaded, otherwise
\* findVoiceWithRetry waits and the call stays in "lookup"
tryCurrentProvider(w, c) ==
  LET w1 == [w EXCEPT !.calls[c].attempts = Append(@, w.tts.currentProviderIndex)]
      w2 == findVoiceWithRetry(w1, c, "speak", defaultMaxRetries, Ms(defaultRetryDelay))
  IN  IF getCurrentProvider(w) = "FishAudio" THEN [w1 EXCEPT !.calls[c].pc = "fetch"]
      ELSE IF w2.calls[c].pc = "lookup" THEN w2
      ELSE WebSpeechSubmit(w2, c)

\* speak calling stop() before it looks at its arguments: what C28 rules out
StopThenCheck(w, c, text, cont) ==
  LET w1 == Stop(w)
  IN  IF text = "" \/ ~hasProviders(w)
      THEN [w1 EXCEPT !.calls[c] = [FreeCall EXCEPT !.pc = "rejected",
                                                    !.outcome = "invalid",
                                                    !.cont = cont]]
      ELSE tryCurrentProvider([w1 EXCEPT !.tts.isPlaying = TRUE,
                                         !.calls[c] = [FreeCall EXCEPT !.cont = cont]], c)

\* TTSService.speak up to its first await, for the call in slot c
\* (text = "" stands for a missing or empty text)
speak(w, c, text, cont) ==
  IF text = "" \/ ~hasProviders(w)
  THEN [w EXCEPT !.calls[c] = [FreeCall EXCEPT !.pc = "rejected", !.outcome = "invalid",
                                                !.cont = cont]]
  ELSE LET w1 == Stop(w)
           w2 == [w1 EXCEPT !.tts.isPlaying = TRUE,
                            !.calls[c] = [FreeCall EXCEPT !.cont = cont]]
       IN  tryCurrentProvider(w2, c)

(* ------------------------ transcripts and their class ------------------- *)

\* transcripts are sequences of characters, already trimmed and lower-cased
TYes == <<"y", "e", "s">>
TNo == <<"n", "o">>
TSkip == <<"s", "k", "i", "p">>
TMaybe == <<"m", "a", "y", "b", "e">>

\* what the recognizer delivers as the final transcript in a session
Transcripts == {TYes, TMaybe}

\* the letters A..Z
UpperCase ==
  <<"A", "B", "C", "D", "E", "F", "G", "H", "I", "J", "K", "L", "M",
    "N", "O", "P", "Q", "R", "S", "T", "U", "V", "W", "X", "Y", "Z">>

\* the letters a..z
LowerCase ==
  <<"a", "b", "c", "d", "e", "f", "g", "h", "i", "j", "k", "l", "m",
    "n", "o", "p", "q", "r", "s", "t", "u", "v", "w", "x", "y", "z">>

\* String.prototype.toLowerCase
ToLowerCase(t) ==
  [i \in 1..Len(t) |->
     IF \E k \in 1..26 : UpperCase[k] = t[i]
     THEN LowerCase[CHOOSE k \in 1..26 : UpperCase[k] = t[i]]
     ELSE t[i]]

\* String.prototype.trim
Trim(t) ==
  LET inked == {i \in 1..Len(t) : t[i] # " "}
  IN  IF inked = {} THEN <<>>
      ELSE SubSeq(t, Min(inked), CHOOSE i \in inked : \A j \in inked : j <= i)

\* handleSpeechResult: event.results[last][0].transcript.trim().toLowerCase()
Normalize(raw) == ToLowerCase(Trim(raw))

\* String.prototype.includes
Includes(t, m) == \E i \in 1..(Len(t) - Len(m) + 1) : SubSeq(t, i, i + Len(m) - 1) = m

\* the chain of handleSpeechResult with the test for no before the test for yes
ClassifyNoFirst(t) ==
  IF Includes(t, <<"n", "o">>) \/ Includes(t, <<"n", "o", "p", "e">>)
       \/ Includes(t, <<"n", "a", "h">>) THEN "no"
  ELSE IF Includes(t, <<"y", "e", "s">>) \/ Includes(t, <<"y", "e", "a", "h">>)
            \/ Includes(t, <<"y", "e", "p">>) THEN "yes"
  ELSE IF Includes(t, <<"s", "k", "i", "p">>) THEN "skip"
  ELSE ""

\* the if / else-if chain of handleSpeechResult; "" is the unrecognized case
Classify(t) ==
  IF Includes(t, <<"y", "e", "s">>) \/ Includes(t, <<"y", "e", "a", "h">>)
       \/ Includes(t, <<"y", "e", "p">>) THEN "yes"
  ELSE IF Includes(t, <<"n", "o">>) \/ Includes(t, <<"n", "o", "p", "e">>)
            \/ Includes(t, <<"n", "a", "h">>) THEN "no"
  ELSE IF Includes(t, <<"s", "k", "i", "p">>) THEN "skip"
  ELSE ""

(* --------------------------- DailyHabitTracker -------------------------- *)

\* the habits array built by processNextHabit: the non-empty slots in key order
Habits(w) == SeqOfSet(w.trk.habitStack.keys)

\* the habit at index i of that array, 0 when i is past the last habit
HabitAt(w, i) == IF i < Len(Habits(w)) THEN Habits(w)[i + 1] ELSE 0

\* a speak() call whose promise is pending, or whose audio is still audible
Speaking(cs, c) == cs[c].pc \in Pending \/ cs[c].audio = "playing"

\* DailyHabitTracker.handleError: the status update and the onError callback
handleError(w) == [w EXCEPT !.onError = @ + 1]

\* habit k is done with in the session in progress: answered, or failed with
\* an error
Close(w, k) ==
  IF k = 0 \/ ~w.trk.isProcessing THEN w ELSE [w EXCEPT !.obs.closed = @ \cup {k}]

\* recognition reported an error while the tracker listened for habit k in the
\* session in progress
Errored(w, k) ==
  IF k = 0 \/ ~w.trk.isProcessing THEN w ELSE [w EXCEPT !.obs.errored = @ \cup {k}]

\* currentHabitIndex++
IncIndex(w) ==
  [w EXCEPT !.trk.currentHabitIndex = @ + 1,
            !.ok = @ /\ w.trk.currentHabitIndex < MaxKey + MaxOverrun]

\* DailyHabitTracker.speakText with an initialised ttsService and a text:
\* ttsService.speak(text) in the lowest free slot
speakText(w, cont) ==
  LET free == {c \in Calls : w.calls[c].pc = "free"}
  IN  IF free = {} THEN [w EXCEPT !.ok = FALSE]
      ELSE speak(w, Min(free), "text", cont)

\* checkAuthentication letting everyone through: what C18 rules out
Anyone(w) == TRUE

\* DailyHabitTracker.checkAuthentication: its result
checkAuthentication(w) == w.trk.userId

\* the onAuthRequired callback, which checkAuthentication invokes when it
\* returns false
onAuthRequired(w) == [w EXCEPT !.onAuthRequired = @ + 1]

\* onComplete({responses, reflection, success}) and isProcessing = false: the
\* session is over
Complete(w, success) ==
  [w EXCEPT !.trk.isProcessing = FALSE, !.onComplete = @ + 1,
            !.obs.closed = {}, !.obs.errored = {}]

\* the date (year, month, day of the month) of a day counted from 2023-07-29,
\* in the months around it
CalendarDate(n) ==
  LET july == n + 29
  IN  IF july < 1 THEN <<2023, 6, july + 30>>
      ELSE IF july <= 31 THEN <<2023, 7, july>>
      ELSE IF july <= 62 THEN <<2023, 8, july - 31>>
      ELSE <<2023, 9, july - 62>>

\* the local day of a Date, an instant in hours from 2023-07-29T00:00Z, in a
\* time zone that many hours ahead of UTC (and without a change of offset in
\* these weeks)
LocalDay(t, utcOffset) == (t + utcOffset) \div 24

\* Date.prototype.getDay: the local day of the week, 0 for Sunday; 2023-07-29
\* is a Saturday
getDay(t, utcOffset) == (LocalDay(t, utcOffset) + 6) % 7

\* Date.prototype.getDate: the local day of the month
getDate(t, utcOffset) == CalendarDate(LocalDay(t, utcOffset))[3]

\* Date.prototype.setDate: the local day of the month is set, at the same local
\* time; a day before the 1st is a day of the month before
setDate(t, utcOffset, date) == t + 24 * (date - getDate(t, utcOffset))

\* Date.prototype.toISOString().split('T')[0]: the date in UTC
toISODate(t) == CalendarDate(t \div 24)

\* DailyHabitTracker.formatDate
formatDate(date) == toISODate(date)

\* the payload of submitDailyLog: the date, the responses, and
\* `this.reflection || ''`
payload(w) ==
  [date |-> formatDate(w.trk.date),
   responses |-> w.trk.responses,
   reflection |-> IF w.trk.reflection = <<>> THEN <<>> ELSE w.trk.reflection]

\* DailyHabitTracker.submitDailyLog up to the await of the POST
submitDailyLog(w) ==
  IF ~checkAuthentication(w) THEN onAuthRequired(w)
  ELSE IF \A k \in Keys : w.trk.responses[k] = ""
       THEN Complete(handleError(w), FALSE)
  ELSE [w EXCEPT !.requests = Append(@, payload(w)),
                 !.trk.posting = @ + 1,
                 !.obs.posts = IF @ < MaxPosts THEN @ + 1 ELSE @,
                 !.ok = @ /\ w.trk.posting < MaxPosting]

\* DailyHabitTracker.askForReflection up to the await of speakText
askForReflection(w) == speakText(w, [kind |-> "reflection", habit |-> 0])

\* DailyHabitTracker.processNextHabit up to the await of speakText
processNextHabit(w) ==
  IF ~w.trk.habitStack.loaded THEN [w EXCEPT !.trk.isProcessing = FALSE]
  ELSE IF w.trk.currentHabitIndex >= Len(Habits(w)) THEN askForReflection(w)
  ELSE speakText(w, [kind |-> "habit", habit |-> HabitAt(w, w.trk.currentHabitIndex)])

\* SpeechRecognition.start(): TRUE when it throws InvalidStateError, which it
\* does from start() until the end event of that run
StartThrows(w) == w.recognition.state # "idle"

\* DailyHabitTracker.listenForResponse
listenForResponse(w, h) ==
  LET w1 == [w EXCEPT !.trk.recognitionContext = [type |-> "habit", habit |-> h]]
  IN  IF StartThrows(w1)
      THEN processNextHabit(IncIndex(Close(handleError(w1), h)))
      ELSE [w1 EXCEPT !.recognition.state = "listening"]

\* DailyHabitTracker.handleSpeechResult, for the transcript raw of the event
handleSpeechResult(w, raw) ==
  LET transcript == Normalize(raw)
  IN  IF w.trk.recognitionContext.type = "habit"
      THEN LET h == w.trk.recognitionContext.habit
               response == Classify(transcript)
           IN  IF response = ""
               THEN speakText(w, [kind |-> "reprompt", habit |-> h])
               ELSE processNextHabit(IncIndex(Close(
                      [w EXCEPT !.trk.responses[h] = response], h)))
      ELSE IF w.trk.recognitionContext.type = "reflection"
      THEN submitDailyLog([w EXCEPT !.trk.reflection = transcript])
      ELSE w

\* DailyHabitTracker.handleSpeechError
handleSpeechError(w) ==
  LET w1 == handleError(w)
  IN  IF w1.trk.recognitionContext.type = "habit"
      THEN LET h == w1.trk.recognitionContext.habit
           IN  processNextHabit(IncIndex(Close(Errored(w1, h), h)))
      ELSE IF w1.trk.recognitionContext.type = "reflection"
      THEN submitDailyLog(w1)
      ELSE w1

\* DailyHabitTracker.handleSpeechEnd
handleSpeechEnd(w) ==
  IF /\ w.trk.isProcessing
     /\ w.trk.recognitionContext.type = "habit"
     /\ w.trk.responses[w.trk.recognitionContext.habit] = ""
  THEN listenForResponse(w, w.trk.recognitionContext.habit)
  ELSE w

\* the code after `await this.speakText(...)` of the caller of call c, run when
\* the promise of speak() settles: cont says which prompt the call speaks
Continue(w, c) ==
  LET cont == w.calls[c].cont
  IN  IF cont.kind \in {"habit", "reprompt"} THEN listenForResponse(w, cont.habit)
      ELSE IF cont.kind = "reflection"
      THEN LET w1 == [w EXCEPT !.trk.recognitionContext =
                                  [type |-> "reflection", habit |-> 0]]
           IN  IF StartThrows(w1) THEN submitDailyLog(handleError(w1))
               ELSE [w1 EXCEPT !.recognition.state = "listening"]
      ELSE IF cont.kind = "thanks" THEN Complete(w, TRUE)
      ELSE w

(* ------------------- TTSService: the rest of speak() --------------------- *)

\* the promise of speak() is fulfilled; its caller resumes
Resolve(w, c, outcome) ==
  Continue([w EXCEPT !.calls[c].pc = "resolved", !.calls[c].outcome = outcome], c)

\* the caller's onComplete / onError passed to speak(); the tracker passes none
Callback(w, c, which) ==
  IF w.calls[c].cont.kind # "client" THEN w
  ELSE IF which = "onComplete" THEN [w EXCEPT !.calls[c].onComplete = @ + 1]
  ELSE [w EXCEPT !.calls[c].onError = @ + 1]

\* the two catch blocks of TTSService.speak, entered when the awaited
\* tryCurrentProvider rejects
Failover(w, c) ==
  LET giveUp == Resolve(Callback([w EXCEPT !.tts.isPlaying = FALSE], c, "onError"),
                        c, "error")
  IN  IF Len(w.calls[c].attempts) = 1
      THEN IF Len(w.tts.providerNames) > 1
           THEN tryCurrentProvider(switchToNextProvider(w), c)
           ELSE giveUp
      ELSE giveUp

\* TTSService.handleAudioElement, with the listeners it attaches as the actions
\* AudioEnded and AudioError
handleAudioElement(w, c) ==
  [w EXCEPT !.tts.currentAudio = c, !.calls[c].audio = "playing"]

(* ------------------------------ actions --------------------------------- *)

\* FishAudioProvider.speak: the proxy answered with an audio URL; the dispatcher
\* starts playback and speak() returns
FetchOk(c) ==
  /\ calls[c].pc = "fetch"
  /\ Commit(Resolve(handleAudioElement([World EXCEPT !.fishAudio.audioElement = c], c),
                    c, "ok"))

\* FishAudioProvider.speak throws: network failure, HTTP error, no audio_url
FetchFail(c) ==
  /\ calls[c].pc = "fetch"
  /\ Commit(Failover(World, c))

\* speechSynthesis.onvoiceschanged: loadVoices finds the voice list loaded
VoicesChanged ==
  /\ ~tts.voices
  /\ Commit([World EXCEPT !.tts.voices = TRUE])

\* findVoiceWithRetry returns: a retry found a voice (found), or the retries
\* are used up and the utterance keeps the default voice
LookupDone(c, found) ==
  /\ calls[c].pc = "lookup"
  /\ Commit(WebSpeechSubmit([World EXCEPT
              !.tts.voices = @ \/ found,
              !.calls[c].lookup.voice = IF found THEN "found" ELSE "null"], c))

\* findVoiceWithRetry returns to the speak() that awaits it, which submits the
\* utterance with the voice or without one, or to a client that called it
findVoiceReturn(w, c) ==
  IF w.calls[c].lookup.caller = "speak" THEN WebSpeechSubmit(w, c)
  ELSE Resolve(w, c, w.calls[c].lookup.voice)

\* a client calls findVoiceWithRetry(maxRetries) of the WebSpeech provider
FindVoice(c, maxRetries) ==
  /\ calls[c].pc = "free"
  /\ LET w1 == [World EXCEPT !.calls[c] = [FreeCall EXCEPT !.cont = ClientCont]]
         w2 == findVoiceWithRetry(w1, c, "client", maxRetries, Ms(defaultRetryDelay))
     IN  Commit(IF w2.calls[c].pc = "lookup" THEN w2 ELSE findVoiceReturn(w2, c))

\* the timer of a retry of findVoiceWithRetry fires: the rest of the loop body
\* (loadVoices, findVoice, retries++, the next delay), the loop test, and
\* either the next setTimeout or the return
RetryTimer(c) ==
  /\ calls[c].pc = "lookup"
  /\ LET f == [calls[c].lookup EXCEPT !.voice = findVoice(World),
                                      !.retries = @ + 1,
                                      !.retryDelay = backoff(@)]
     IN  IF f.voice = "null" /\ f.retries < f.maxRetries
         THEN Commit([World EXCEPT
                       !.calls[c].lookup = [f EXCEPT !.waited = Append(@, f.retryDelay)]])
         ELSE Commit(findVoiceReturn([World EXCEPT !.calls[c].lookup = f], c))

\* the 50 ms timer of WebSpeechProvider.speak: synth.speak(utterance)
TimerFires(c) ==
  /\ calls[c].pc = "timer"
  /\ Commit([World EXCEPT !.synth = Append(@, c), !.calls[c].pc = "queued"])

\* utterance.onend of the utterance being spoken
UtteranceEnd(c) ==
  /\ calls[c].pc = "queued"
  /\ synth # <<>> /\ Head(synth) = c
  /\ Commit(Resolve(Callback([World EXCEPT !.synth = Tail(@), !.tts.isPlaying = FALSE],
                             c, "onComplete"), c, "ok"))

\* utterance.onerror: a synthesis error, or the error event that follows cancel()
UtteranceError(c) ==
  /\ calls[c].pc \in {"queued", "cancelled"}
  /\ Commit(Failover(Callback([World EXCEPT !.synth = Without(@, c),
                                            !.tts.isPlaying = FALSE], c, "onError"), c))

\* the 'ended' listener of handleAudioElement
AudioEnded(c) ==
  /\ calls[c].audio = "playing"
  /\ Commit(Callback([World EXCEPT !.calls[c].audio = "ended",
                                   !.tts.isPlaying = FALSE, !.tts.currentAudio = 0],
                     c, "onComplete"))

\* the 'error' listener of handleAudioElement, or play() rejecting
AudioError(c) ==
  /\ calls[c].audio = "playing"
  /\ Commit(Callback([World EXCEPT !.calls[c].audio = "error",
                                   !.tts.isPlaying = FALSE, !.tts.currentAudio = 0],
                     c, "onError"))

\* a client of the dispatcher calls speak(text, {onComplete, onError})
ClientSpeak(c, text) ==
  /\ calls[c].pc = "free"
  /\ Commit(speak(World, c, text, ClientCont))

\* a client of the dispatcher calls stop(); the calls that were in flight or
\* audible at that time are marked as stopped
ClientStop ==
  /\ Commit([Stop(World) EXCEPT
              !.calls = [c \in Calls |->
                          [@[c] EXCEPT !.stopped = @ \/ Speaking(calls, c)]]])

\* the client lets go of a settled promise whose audio is over
ClientRelease(c) ==
  /\ calls[c].pc \in Settled
  /\ calls[c].cont.kind = "client"
  /\ calls[c].audio # "playing"
  /\ Commit([World EXCEPT !.calls[c] = FreeCall,
                          !.tts.currentAudio = IF @ = c THEN 0 ELSE @,
                          !.fishAudio.audioElement = IF @ = c THEN 0 ELSE @])

\* startDailyCheck without its re-entrancy guard: what C5 rules out
NoGuard(w) == FALSE

\* the re-entrancy guard of startDailyCheck: if (this.isProcessing) return
isActive(w) == w.trk.isProcessing

\* DailyHabitTracker.startDailyCheck up to the await of fetchHabitStack
startDailyCheck(w) ==
  IF isActive(w) THEN w
  ELSE IF ~checkAuthentication(w) THEN onAuthRequired(w)
  ELSE [w EXCEPT !.trk.isProcessing = TRUE, !.trk.fetching = @ + 1]

\* the user starts a check-in (the start button, or the page), on a tracker
\* that starts at most maxSessions sessions one after the other; obs counts
\* the sessions started, the calls made while the fetch of the session is in
\* flight and the calls refused for lack of a user id
Start(maxSessions) ==
  LET w == startDailyCheck(World)
  IN  IF w.trk.fetching > trk.fetching
      THEN /\ trk.isProcessing \/ obs.sessions < maxSessions
           /\ Commit([w EXCEPT !.obs.sessions = @ + 1, !.obs.restarts = 0,
                               !.obs.posts = 0, !.obs.started = clock.now])
      ELSE IF w.onAuthRequired > 0
      THEN Commit([w EXCEPT !.obs.refused = IF @ < MaxRefused THEN @ + 1 ELSE @])
      ELSE Commit([w EXCEPT !.obs.restarts =
                              IF trk.fetching > 0 /\ @ < MaxRestarts THEN @ + 1 ELSE @])

\* startDailyCheck() on the tracker of one session
StartDailyCheck == Start(MaxSessions)

\* startDailyCheck() on a tracker that is used for a second session
StartDailyCheckAgain == Start(MaxSessionsDay)

\* authService.getUserId() returns null from now on (the user logs out, the
\* login expires) and options.userId is not set
AuthLost ==
  /\ trk.userId
  /\ Commit([World EXCEPT !.trk.userId = FALSE])

\* fetchHabitStack returns the stack; startDailyCheck resets the session state
\* and processes the first habit
FetchStackOk(keys) ==
  /\ trk.fetching > 0
  /\ Commit(processNextHabit(
       [World EXCEPT !.trk.fetching = @ - 1,
                     !.trk.habitStack = [loaded |-> TRUE, keys |-> keys],
                     !.trk.responses = [k \in Keys |-> ""],
                     !.trk.currentHabitIndex = 0,
                     !.obs.restarts = 0,
                     !.obs.closed = {},
                     !.obs.errored = {}]))

\* fetchHabitStack throws (HTTP error, timeout, success:false, no habit_stack)
FetchStackFail ==
  /\ trk.fetching > 0
  /\ Commit([handleError(World) EXCEPT !.trk.fetching = @ - 1,
                                       !.trk.isProcessing = FALSE,
                                       !.obs.restarts = 0])

\* recognition.onresult with the final transcript
RecResult(t) ==
  /\ recognition.state = "listening"
  /\ Commit(handleSpeechResult([World EXCEPT !.recognition.state = "ending"], t))

\* recognition.onerror
RecError ==
  /\ recognition.state = "listening"
  /\ Commit(handleSpeechError([World EXCEPT !.recognition.state = "ending"]))

\* recognition.onend: after a result or an error, or with nothing heard
RecEnd ==
  /\ recognition.state \in {"listening", "ending"}
  /\ Commit(handleSpeechEnd([World EXCEPT !.recognition.state = "idle"]))

\* submitDailyLog: the POST succeeded; the thank-you is spoken
SubmitOk ==
  /\ trk.posting > 0
  /\ Commit(speakText([World EXCEPT !.trk.posting = @ - 1],
                      [kind |-> "thanks", habit |-> 0]))

\* submitDailyLog: the POST failed (HTTP error, timeout, success:false)
SubmitFail ==
  /\ trk.posting > 0
  /\ Commit(Complete(handleError([World EXCEPT !.trk.posting = @ - 1]), FALSE))

(* ---------------------------- VoiceGoalsInput --------------------------- *)

\* \d of the regular expressions
IsDigit(ch) == ch \in {"0", "1", "2", "3", "4", "5", "6", "7", "8", "9"}

\* the character classes of the regular expressions: \s (on the characters
\* the transcripts use), \d, and [^,\.\d\)]
InClass(ch, class) ==
  CASE class = "\\s" -> ch = " "
    [] class = "\\d" -> IsDigit(ch)
    [] class = "[^,\\.\\d\\)]" -> ch \notin {",", ".", ")"} /\ ~IsDigit(ch)

\* the first index from i on whose character is not in the class, Len(t) + 1
\* if there is none: where a greedy class* that starts at i stops
RECURSIVE RunEnd(_, _, _)
RunEnd(t, i, class) ==
  IF i > Len(t) \/ ~InClass(t[i], class) THEN i ELSE RunEnd(t, i + 1, class)

\* this.maxGoals, by default
maxGoals == 5

\* splitPatterns of processTranscriptIntoGoals, in their order: the text
\* between the white space of the pattern, and whether that white space is
\* \s+ or \s*; "#" is \d+[\.\)]
splitPatterns ==
  <<[text |-> <<"a", "n", "d">>, space |-> "+"],
    [text |-> <<",">>, space |-> "*"],
    [text |-> <<"a", "l", "s", "o">>, space |-> "+"],
    [text |-> <<".">>, space |-> "*"],
    [text |-> <<"#">>, space |-> "*"],
    [text |-> <<"n", "e", "x", "t">>, space |-> "+"],
    [text |-> <<"f", "i", "n", "a", "l", "l", "y">>, space |-> "+"],
    [text |-> <<"l", "a", "s", "t", "l", "y">>, space |-> "+"]>>

\* RegExp match of a split pattern at index i of t: the index after the match,
\* 0 when the pattern does not match there.  The white space is matched
\* greedily; the words are matched without regard to case (flag i)
MatchEnd(t, i, pattern) ==
  LET a == RunEnd(t, i, "\\s")
      d == RunEnd(t, a, "\\d")
      b == IF pattern.text = <<"#">>
           THEN IF d > a /\ d <= Len(t) /\ t[d] \in {".", ")"} THEN d + 1 ELSE 0
           ELSE IF /\ a + Len(pattern.text) - 1 <= Len(t)
                   /\ ToLowerCase(SubSeq(t, a, a + Len(pattern.text) - 1)) = pattern.text
                THEN a + Len(pattern.text) ELSE 0
      c == RunEnd(t, b, "\\s")
  IN  IF b # 0 /\ (pattern.space = "*" \/ (a > i /\ c > b)) THEN c ELSE 0

\* String.prototype.split(pattern) of t, for the piece that starts at p and
\* the search that has come to q
RECURSIVE SplitFrom(_, _, _, _)
SplitFrom(t, p, q, pattern) ==
  IF q > Len(t) THEN <<SubSeq(t, p, Len(t))>>
  ELSE LET e == MatchEnd(t, q, pattern)
       IN  IF e = 0 THEN SplitFrom(t, p, q + 1, pattern)
           ELSE <<SubSeq(t, p, q - 1)>> \o SplitFrom(t, e, e, pattern)

\* transcript.split(pattern).filter(Boolean)
Split(t, pattern) == SelectSeq(SplitFrom(t, 1, 1, pattern), LAMBDA piece : piece # <<>>)

\* the loop over splitPatterns without its break: every pattern is applied and
\* the last one decides
TryEveryPattern(t, goals, k) == Split(t, splitPatterns[Len(splitPatterns)])

\* the loop over splitPatterns: the next pattern is tried while there are
\* fewer than two goals
RECURSIVE TryPatterns(_, _, _)
TryPatterns(t, goals, k) ==
  IF k > Len(splitPatterns) \/ Len(goals) > 1 THEN goals
  ELSE TryPatterns(t, Split(t, splitPatterns[k]), k + 1)

\* /\d+[\.\)]/.test(transcript)
HasMarker(t) ==
  \E i \in 1..(Len(t) - 1) : IsDigit(t[i]) /\ t[i + 1] \in {".", ")"}

\* match of /(\d+[\.\)])([^,\.\d\)]+)/ at index i of t: the index after the
\* match, 0 when there is none
MarkerMatchEnd(t, i) ==
  LET d == RunEnd(t, i, "\\d")
      e == RunEnd(t, d + 1, "[^,\\.\\d\\)]")
  IN  IF d > i /\ d <= Len(t) /\ t[d] \in {".", ")"} /\ e > d + 1 THEN e ELSE 0

\* the indices where replace(.../g, '___SPLIT___$1$2') puts its mark, from q on
RECURSIVE Marks(_, _)
Marks(t, q) ==
  IF q > Len(t) THEN {}
  ELSE LET e == MarkerMatchEnd(t, q)
       IN  IF e = 0 THEN Marks(t, q + 1) ELSE {q} \cup Marks(t, e)

\* numberedFormat.split('___SPLIT___').filter(Boolean)
SplitAtMarks(t) ==
  LET at == SeqOfSet(Marks(t, 1) \cup {1, Len(t) + 1})
  IN  SelectSeq([k \in 1..(Len(at) - 1) |-> SubSeq(t, at[k], at[k + 1] - 1)],
                LAMBDA piece : piece # <<>>)

\* goal.replace(/^\s*\d+[\.\)]\s*/, '').trim()
StripMarker(goal) ==
  LET e == MatchEnd(goal, 1, [text |-> <<"#">>, space |-> "*"])
  IN  Trim(IF e = 0 THEN goal ELSE SubSeq(goal, e, Len(goal)))

\* processTranscriptIntoGoals up to its clean-up: the numbered format, or the
\* split patterns
SplitGoals(transcript) ==
  IF HasMarker(transcript)
  THEN [k \in DOMAIN SplitAtMarks(transcript) |-> StripMarker(SplitAtMarks(transcript)[k])]
  ELSE TryPatterns(transcript, <<>>, 1)

\* the clean-up without slice(0, this.maxGoals)
CleanUpAll(goals) ==
  SelectSeq([k \in DOMAIN goals |-> Trim(goals[k])], LAMBDA goal : Len(goal) > 0)

\* the clean-up of processTranscriptIntoGoals: trim, filter, slice
CleanUp(goals) ==
  LET trimmed == SelectSeq([k \in DOMAIN goals |-> Trim(goals[k])],
                           LAMBDA goal : Len(goal) > 0)
  IN  SubSeq(trimmed, 1, IF Len(trimmed) < maxGoals THEN Len(trimmed) ELSE maxGoals)

\* processTranscriptIntoGoals without its last step, the whole transcript as
\* one goal when nothing was split off
WithoutFallback(transcript) == CleanUp(SplitGoals(transcript))

\* VoiceGoalsInput.processTranscriptIntoGoals
processTranscriptIntoGoals(transcript) ==
  LET goals == CleanUp(SplitGoals(transcript))
  IN  IF Len(goals) = 0 /\ Len(Trim(transcript)) > 0 THEN <<Trim(transcript)>> ELSE goals

\* Array.prototype.join(' ')
RECURSIVE Join(_)
Join(results) ==
  IF Len(results) = 0 THEN <<>>
  ELSE IF Len(results) = 1 THEN results[1]
  ELSE results[1] \o <<" ">> \o Join(Tail(results))

\* the VoiceGoalsInput object and its recognizer, with what a handler hands to
\* the callbacks: the arguments of onFinalResult and the number of onError
\* and onAuthRequired calls, which are not part of the state
GoalsInput == [vgi |-> voiceGoalsInput, ok |-> TRUE, onFinalResult |-> <<>>,
               onError |-> 0, onAuthRequired |-> 0, clock |-> clock]

CommitGoals(g) ==
  /\ g.ok
  /\ voiceGoalsInput' = g.vgi
  /\ UNCHANGED <<tts, fishAudio, synth, calls, trk, recognition, obs, clock,
                 habitCheckin>>

\* the page's onError option: the loading element is hidden and the error
\* element shows the message of the error
goalsOnError(g, error) ==
  [g EXCEPT !.onError = @ + 1, !.vgi.page = [error |-> error, loading |-> FALSE]]

\* the default of the onAuthRequired option, which the page leaves in place
goalsOnAuthRequired(g) ==
  goalsOnError([g EXCEPT !.onAuthRequired = @ + 1], "auth_required")

\* the page's onStartListening option, as far as the error element goes
onStartListening(g) == [g EXCEPT !.vgi.page.error = ""]

\* the page's onResult option for the answer of the goals endpoint
onResult(g) == [g EXCEPT !.vgi.page.loading = FALSE]

\* VoiceGoalsInput.startListening, in a browser that has SpeechRecognition;
\* recognition.start() throws InvalidStateError unless the recognizer is idle
startListening(g) ==
  IF ~g.vgi.userId THEN goalsOnAuthRequired(g)
  ELSE IF g.vgi.isListening THEN g
  ELSE IF g.vgi.recognition # "idle" THEN goalsOnError(g, "start_error")
  ELSE [g EXCEPT !.vgi.recognition = "starting", !.vgi.isListening = TRUE]

\* VoiceGoalsInput.stopListening
stopListening(g) ==
  IF ~g.vgi.isListening THEN g
  ELSE [g EXCEPT !.vgi.recognition = IF @ = "idle" THEN @ ELSE "stopping",
                 !.vgi.isListening = FALSE]

\* VoiceGoalsInput.handleStart
handleStart(g) == onStartListening([g EXCEPT !.vgi.lastResults = <<>>])

\* VoiceGoalsInput.handleResult, for an event with one new result
handleResult(g, transcript, isFinal) ==
  IF isFinal
  THEN [g EXCEPT !.vgi.lastResults = Append(@, Trim(transcript)),
                 !.ok = @ /\ Len(g.vgi.lastResults) < MaxResults]
  ELSE g

\* VoiceGoalsInput.handleError
goalsHandleError(g) ==
  goalsOnError([g EXCEPT !.vgi.isListening = FALSE], "recognition_error")

\* the payload of sendGoalsToBackend: week_start and goals; user_id is the
\* one user there is
goalsPayload(g, goals) ==
  LET currentDate == g.clock.now
      day == getDay(currentDate, g.clock.utcOffset)
      weekStart == setDate(currentDate, g.clock.utcOffset,
                           getDate(currentDate, g.clock.utcOffset) - day)
  IN  [week_start |-> toISODate(weekStart), goals |-> goals]

\* handleEnd sending the goals at once, as before the confirmation step: what
\* C20 rules out
SendAtOnce(g, transcript, goals) ==
  [g EXCEPT !.vgi.sending = Append(@, goalsPayload(g, goals)),
            !.ok = @ /\ Len(g.vgi.sending) < MaxSending]

\* VoiceGoalsInput.requestConfirmation
requestConfirmation(g, transcript, goals) ==
  [g EXCEPT !.onFinalResult = Append(@, [transcript |-> transcript, goals |-> goals,
                                         requiresConfirmation |-> TRUE])]

\* VoiceGoalsInput.handleEnd
handleEnd(g) ==
  LET finalTranscript == Join(g.vgi.lastResults)
      g1 == [g EXCEPT !.vgi.isListening = FALSE]
  IN  IF Len(Trim(finalTranscript)) > 0
      THEN requestConfirmation(g1, finalTranscript,
                               processTranscriptIntoGoals(finalTranscript))
      ELSE g1

\* VoiceGoalsInput.sendGoalsToBackend up to the await of fetch: the payload
\* is what goes out; an error is reported by its catch and again by the
\* catch of sendConfirmedGoals
sendGoalsToBackend(g, goals) ==
  IF Len(goals) = 0
  THEN goalsOnError(goalsOnError(g, "backend_error"), "process_error")
  ELSE IF ~g.vgi.userId
  THEN goalsOnError(goalsOnError(goalsOnAuthRequired(g), "backend_error"),
                    "process_error")
  ELSE [g EXCEPT !.vgi.sending = Append(@, goalsPayload(g, goals)),
                 !.ok = @ /\ Len(g.vgi.sending) < MaxSending]

\* sendConfirmedGoals handing the goals on whoever asks: what C25 rules out
SendUnchecked(g, goals) ==
  [g EXCEPT !.vgi.sending = Append(@, goalsPayload(g, goals)),
            !.ok = @ /\ Len(g.vgi.sending) < MaxSending]

\* VoiceGoalsInput.sendConfirmedGoals
sendConfirmedGoals(g, goals) ==
  IF ~g.vgi.userId THEN goalsOnAuthRequired(g)
  ELSE sendGoalsToBackend(g, goals)

\* the click handler of the page's confirm button: the loading element is
\* shown after the call, and the errors reported in the call hide it again
\* only where they come from the promise
confirmGoalsClick(g, goals) ==
  LET g1 == sendConfirmedGoals(g, goals)
  IN  [g1 EXCEPT !.vgi.page.loading =
         g.vgi.userId => Len(g1.vgi.sending) > Len(g.vgi.sending)]

\* the page calls startListening (start button)
StartListening == CommitGoals(startListening(GoalsInput))

\* the page calls stopListening (stop button)
StopListening == CommitGoals(stopListening(GoalsInput))

\* the page calls sendConfirmedGoals (confirm button)
SendConfirmedGoals(goals) == CommitGoals(confirmGoalsClick(GoalsInput, goals))

\* recognition.onstart
GoalsRecStart ==
  /\ voiceGoalsInput.recognition = "starting"
  /\ CommitGoals(handleStart([GoalsInput EXCEPT !.vgi.recognition = "running"]))

\* recognition.onresult; after stop() the recognizer may still deliver what it
\* has captured
GoalsRecResult(transcript, isFinal) ==
  /\ voiceGoalsInput.recognition \in {"running", "stopping"}
  /\ CommitGoals(handleResult(GoalsInput, transcript, isFinal))

\* recognition.onerror; the end event follows
GoalsRecError ==
  /\ voiceGoalsInput.recognition \in {"starting", "running"}
  /\ CommitGoals(goalsHandleError([GoalsInput EXCEPT !.vgi.recognition = "stopping"]))

\* recognition.onend: after stop(), after an error, or of the recognizer's own
GoalsRecEnd ==
  /\ voiceGoalsInput.recognition # "idle"
  /\ CommitGoals(handleEnd([GoalsInput EXCEPT !.vgi.recognition = "idle"]))

\* the goals endpoint answers, or the request fails and both catch blocks
\* report it
GoalsResponse(success) ==
  /\ Len(voiceGoalsInput.sending) > 0
  /\ LET g == [GoalsInput EXCEPT !.vgi.sending = Tail(@)]
     IN  CommitGoals(IF success THEN onResult(g)
                     ELSE goalsOnError(goalsOnError(g, "backend_error"),
                                       "process_error"))

(* ------------------------------ HabitCheckin ---------------------------- *)

\* a character of the class \w
IsWordChar(ch) ==
  IsDigit(ch) \/ ch = "_" \/ \E k \in 1..26 : ch \in {LowerCase[k], UpperCase[k]}

\* /\bword\b/.test(t), for a word that begins and ends with a character of \w
HasWord(t, word) ==
  \E i \in 1..(Len(t) - Len(word) + 1) :
    /\ SubSeq(t, i, i + Len(word) - 1) = word
    /\ i = 1 \/ ~IsWordChar(t[i - 1])
    /\ i + Len(word) - 1 = Len(t) \/ ~IsWordChar(t[i + Len(word)])

\* the alternatives of the three regular expressions of
\* HabitCheckin.handleSpeechResult
yesWords ==
  {<<"y", "e", "s">>, <<"y", "e", "a", "h">>, <<"y", "e", "p">>,
   <<"d", "i", "d">>, <<"c", "o", "m", "p", "l", "e", "t", "e", "d">>,
   <<"d", "o", "n", "e">>}

noWords ==
  {<<"n", "o">>, <<"n", "o", "p", "e">>, <<"d", "i", "d", "n", "'", "t">>,
   <<"d", "i", "d", " ", "n", "o", "t">>, <<"h", "a", "v", "e", "n", "'", "t">>,
   <<"f", "a", "i", "l", "e", "d">>}

skipWords ==
  {<<"s", "k", "i", "p">>, <<"s", "k", "i", "p", "p", "e", "d">>,
   <<"n", "e", "x", "t">>, <<"n", "o", "t", " ", "s", "u", "r", "e">>,
   <<"m", "a", "y", "b", "e">>, <<"s", "o", "m", "e", "t", "i", "m", "e", "s">>}

\* the response HabitCheckin.handleSpeechResult extracts from the transcript
checkinResponse(transcript) ==
  IF \E word \in yesWords : HasWord(transcript, word) THEN "yes"
  ELSE IF \E word \in noWords : HasWord(transcript, word) THEN "no"
  ELSE IF \E word \in skipWords : HasWord(transcript, word) THEN "skip"
  ELSE "unknown"

\* HabitCheckin.constructor: the state variables, the recognizer, the manual
\* response buttons and the submit button (both hidden), and the habit-stack
\* fetches, prompts and POSTs under way
InitHabitCheckin ==
  habitCheckin = [habitStack |-> [loaded |-> FALSE, keys |-> {}],
                  responses |-> [k \in Keys |-> ""], currentHabitIndex |-> 0,
                  isProcessing |-> FALSE, recognition |-> "idle",
                  manualResponse |-> FALSE, submitButton |-> FALSE,
                  fetching |-> 0, prompts |-> 0, posting |-> <<>>]

CommitCheckin(h) ==
  /\ h.fetching <= MaxPending
  /\ h.prompts <= MaxPending
  /\ Len(h.posting) <= MaxPosting
  /\ habitCheckin' = h
  /\ UNCHANGED <<tts, fishAudio, synth, calls, trk, recognition, obs, voiceGoalsInput,
                 clock>>

\* the habits array built by processNextHabit and handleManualResponse: the
\* keys of the stack, in order
checkinHabits(h) == SeqOfSet(h.habitStack.keys)

\* HabitCheckin.startDailyCheck up to the await of fetchHabitStack
checkinStartDailyCheck(h) ==
  IF h.isProcessing THEN h
  ELSE [h EXCEPT !.isProcessing = TRUE, !.fetching = @ + 1]

\* HabitCheckin.listenForResponse; recognition.start() throws while the
\* recognizer is active, and the error goes to the status line
checkinListenForResponse(h) ==
  IF h.recognition # "idle" THEN h ELSE [h EXCEPT !.recognition = "listening"]

\* HabitCheckin.askForReflection: the buttons go, the submit button comes
checkinAskForReflection(h) ==
  [h EXCEPT !.manualResponse = FALSE, !.submitButton = TRUE]

\* HabitCheckin.processNextHabit up to the await of speakText, which is
\* fulfilled whatever becomes of the speech
checkinProcessNextHabit(h) ==
  IF ~h.habitStack.loaded THEN [h EXCEPT !.isProcessing = FALSE]
  ELSE IF h.currentHabitIndex >= Len(checkinHabits(h)) THEN checkinAskForReflection(h)
  ELSE [h EXCEPT !.manualResponse = TRUE, !.prompts = @ + 1]

\* HabitCheckin.handleManualResponse
checkinHandleManualResponse(h, response) ==
  IF h.currentHabitIndex < Len(checkinHabits(h))
  THEN checkinProcessNextHabit(
         [h EXCEPT !.responses[checkinHabits(h)[h.currentHabitIndex + 1]] = response,
                   !.currentHabitIndex = @ + 1])
  ELSE h

\* HabitCheckin.handleSpeechResult
checkinHandleSpeechResult(h, transcript) ==
  checkinHandleManualResponse(h, checkinResponse(Trim(ToLowerCase(transcript))))

\* the payload of HabitCheckin.submitDailyLog, as far as the responses go: a
\* habit_k_result for every response recorded ("" where there is none)
checkinPayload(h) == [responses |-> h.responses]

\* HabitCheckin.submitDailyLog up to the await of fetch
checkinSubmitDailyLog(h) == [h EXCEPT !.posting = Append(@, checkinPayload(h))]

\* the start button of the check-in page
CheckinStart == CommitCheckin(checkinStartDailyCheck(habitCheckin))

\* the habit-stack endpoint answers with a stack: the rest of startDailyCheck
CheckinStackFetched(keys) ==
  /\ habitCheckin.fetching > 0
  /\ CommitCheckin(checkinProcessNextHabit(
                     [habitCheckin EXCEPT !.fetching = @ - 1,
                                          !.habitStack = [loaded |-> TRUE, keys |-> keys],
                                          !.responses = [k \in Keys |-> ""],
                                          !.currentHabitIndex = 0]))

\* the fetch of the habit stack fails, or there is no stack: the catch of
\* startDailyCheck
CheckinStackFailed ==
  /\ habitCheckin.fetching > 0
  /\ CommitCheckin([habitCheckin EXCEPT !.fetching = @ - 1, !.isProcessing = FALSE])

\* the promise of speakText for a habit prompt is fulfilled: the rest of
\* processNextHabit
CheckinSpoken ==
  /\ habitCheckin.prompts > 0
  /\ CommitCheckin(checkinListenForResponse([habitCheckin EXCEPT !.prompts = @ - 1]))

\* recognition.onresult of the check-in page; the recognizer, which is not
\* continuous, goes on to its end
CheckinRecResult(transcript) ==
  /\ habitCheckin.recognition = "listening"
  /\ CommitCheckin(checkinHandleSpeechResult(
                     [habitCheckin EXCEPT !.recognition = "ending"], transcript))

\* recognition.onend, after a result, an error or silence: handleSpeechEnd
\* changes the page only
CheckinRecEnd ==
  /\ habitCheckin.recognition # "idle"
  /\ CommitCheckin([habitCheckin EXCEPT !.recognition = "idle"])

\* one of the three manual response buttons is clicked
CheckinManual(response) ==
  /\ habitCheckin.manualResponse
  /\ CommitCheckin(checkinHandleManualResponse(habitCheckin, response))

\* the submit button is clicked
CheckinSubmit ==
  /\ habitCheckin.submitButton
  /\ CommitCheckin(checkinSubmitDailyLog(habitCheckin))

\* the daily-log endpoint answers: the rest of submitDailyLog, or its catch
CheckinPosted(success) ==
  /\ Len(habitCheckin.posting) > 0
  /\ CommitCheckin(IF success
                   THEN [habitCheckin EXCEPT !.posting = Tail(@),
                                             !.isProcessing = FALSE,
                                             !.submitButton = FALSE]
                   ELSE [habitCheckin EXCEPT !.posting = Tail(@)])

\* the check-in page is left open for an hour before a session is started
Wait ==
  /\ ~trk.isProcessing
  /\ obs.sessions = 0
  /\ clock.now < MaxHours
  /\ clock' = [clock EXCEPT !.now = @ + 1]
  /\ UNCHANGED <<tts, fishAudio, synth, calls, trk, recognition, obs, voiceGoalsInput,
                 habitCheckin>>

\* an hour passes: the next new Date() is an hour on
Tick ==
  /\ clock.now < MaxHours
  /\ clock' = [clock EXCEPT !.now = @ + 1]
  /\ UNCHANGED <<tts, fishAudio, synth, calls, trk, recognition, obs, voiceGoalsInput,
                 habitCheckin>>

(* --------------------------- specifications ----------------------------- *)

\* provider lists a TTSService is constructed with in this repository
ProviderLists == {<<"WebSpeech">>, <<"FishAudio">>, <<"WebSpeech", "FishAudio">>,
                  <<"FishAudio", "WebSpeech">>, <<>>}

\* the providers, the recognizer and the observations before any session
InitRest ==
  /\ fishAudio = [audioElement |-> 0]
  /\ synth = <<>>
  /\ calls = [c \in Calls |-> FreeCall]
  /\ recognition = [state |-> "idle", heard |-> <<>>]
  /\ obs = [sessions |-> 0, restarts |-> 0, closed |-> {}, errored |-> {}, posts |-> 0,
            refused |-> 0, started |-> 0]
  /\ clock = [now |-> 0, utcOffset |-> 0]
  /\ InitHabitCheckin

\* VoiceGoalsInput.constructor
InitGoalsInput(id) ==
  voiceGoalsInput = [userId |-> id, isListening |-> FALSE, lastResults |-> <<>>,
                     recognition |-> "idle", sending |-> <<>>,
                     page |-> [error |-> "", loading |-> FALSE]]

\* DailyHabitTracker.constructor: the state variables before any session
InitTracker(id) ==
  trk = [userId |-> id, habitStack |-> [loaded |-> FALSE, keys |-> {}],
         responses |-> [k \in Keys |-> ""], currentHabitIndex |-> 0,
         isProcessing |-> FALSE, reflection |-> <<>>,
         recognitionContext |-> [type |-> "none", habit |-> 0],
         fetching |-> 0, posting |-> 0, date |-> 0]

\* TTSService.constructor: any provider list, any defaultProvider, the voice
\* list of the synthesis engine loaded or not yet
InitTTS ==
  /\ \E names \in ProviderLists, v \in BOOLEAN :
       \E i \in 0..(IF Len(names) = 0 THEN 0 ELSE Len(names) - 1) :
         tts = [providerNames |-> names, currentProviderIndex |-> i,
                isPlaying |-> FALSE, currentAudio |-> 0, voices |-> v]
  /\ InitTracker(FALSE)
  /\ InitGoalsInput(FALSE)
  /\ InitRest

\* TTSService.constructor for a list of providers and a default provider, in
\* a browser whose voice list is loaded or not
TTSServiceNew(providers, defaultProvider, voices) ==
  [providerNames |-> providers,
   currentProviderIndex |->
     IF InSeq(providers, defaultProvider)
     THEN Min({i \in 1..Len(providers) : providers[i] = defaultProvider}) - 1
     ELSE 0,
   isPlaying |-> FALSE, currentAudio |-> 0, voices |-> voices]

\* DailyHabitTracker.initTTS for the answer of /api/tts-config: WebSpeech
\* first and default, FishAudio second when the config enables it
initTTS(useFishAudio) ==
  TTSServiceNew(IF useFishAudio THEN <<"WebSpeech", "FishAudio">> ELSE <<"WebSpeech">>,
                "WebSpeech", TRUE)

\* DailyHabitTracker.constructor, once initTTS has built the dispatcher and the
\* engine has loaded its voices
Init ==
  /\ \E useFishAudio \in BOOLEAN : tts = initTTS(useFishAudio)
  /\ \E id \in BOOLEAN : InitTracker(id)
  /\ InitRest
  /\ InitGoalsInput(FALSE)

\* what the browser does with the speech output in flight
Playback ==
  \E c \in Calls :
    \/ FetchOk(c)
    \/ FetchFail(c)
    \/ TimerFires(c)
    \/ UtteranceEnd(c)
    \/ UtteranceError(c)
    \/ AudioEnded(c)
    \/ AudioError(c)

NextTTS ==
  \/ \E c \in Calls, text \in {"", "text"} : ClientSpeak(c, text)
  \/ ClientStop
  \/ \E c \in Calls : ClientRelease(c)
  \/ VoicesChanged
  \/ \E c \in Calls, found \in BOOLEAN : LookupDone(c, found)
  \/ Playback

Next ==
  \/ StartDailyCheck
  \/ \E keys \in SUBSET Keys : FetchStackOk(keys)
  \/ FetchStackFail
  \/ \E t \in Transcripts : RecResult(t)
  \/ RecError
  \/ RecEnd
  \/ SubmitOk
  \/ SubmitFail
  \/ Playback

\* what the user says in a check-in of SpecDay
DayTranscripts == {TYes}

\* the habit stacks the server returns in SpecDay
DayStacks == {{1}, {1, 2}}

\* the tracker of a logged-in user with WebSpeech as its only provider
InitDay ==
  /\ tts = [providerNames |-> <<"WebSpeech">>, currentProviderIndex |-> 0,
            isPlaying |-> FALSE, currentAudio |-> 0, voices |-> TRUE]
  /\ InitTracker(TRUE)
  /\ InitRest
  /\ InitGoalsInput(FALSE)

NextDay ==
  \/ StartDailyCheckAgain
  \/ AuthLost
  \/ \E keys \in DayStacks : FetchStackOk(keys)
  \/ FetchStackFail
  \/ \E t \in DayTranscripts : RecResult(t)
  \/ RecError
  \/ RecEnd
  \/ SubmitOk
  \/ SubmitFail
  \/ \E c \in Calls : TimerFires(c) \/ UtteranceEnd(c) \/ UtteranceError(c)

\* what the user says in the check-in of SpecAnswers
Answers == {TYes, TNo, TSkip}

\* the key set of the stack {habit_1: 'Drink water', habit_2: 'Stretch'}
DrinkWaterStretch == {1, 2}

NextAnswers ==
  \/ StartDailyCheck
  \/ FetchStackOk(DrinkWaterStretch)
  \/ \E t \in Answers : RecResult(t)
  \/ RecEnd
  \/ SubmitOk
  \/ \E c \in Calls : TimerFires(c) \/ UtteranceEnd(c)

\* what the recognizer of VoiceGoalsInput delivers as a result
Heard ==
  {<<" ", "r", "u", "n">>,
   <<"n", "a", "p", " ", "a", "n", "d", " ", "r", "u", "n", " ">>,
   <<" ">>}

\* the goal lists the page passes to sendConfirmedGoals: the goals it was
\* given, edited or not, or none
Confirmed ==
  {<<>>, <<<<"r", "u", "n">>>>, <<<<"n", "a", "p">>, <<"r", "u", "n">>>>,
   <<<<"w", "a", "l", "k">>>>}

InitGoals ==
  /\ tts = [providerNames |-> <<>>, currentProviderIndex |-> 0, isPlaying |-> FALSE,
            currentAudio |-> 0, voices |-> FALSE]
  /\ InitTracker(FALSE)
  /\ InitRest
  /\ \E id \in BOOLEAN : InitGoalsInput(id)

NextGoals ==
  \/ StartListening
  \/ StopListening
  \/ \E goals \in Confirmed : SendConfirmedGoals(goals)
  \/ GoalsRecStart
  \/ \E transcript \in Heard, isFinal \in BOOLEAN : GoalsRecResult(transcript, isFinal)
  \/ GoalsRecError
  \/ GoalsRecEnd
  \/ \E success \in BOOLEAN : GoalsResponse(success)

\* words of the utterances the classification is tried on
Words ==
  {TYes, TNo, TSkip, TMaybe, <<"y", "e", "a", "h">>, <<"y", "e", "p">>, <<"n", "o", "p", "e">>, <<"n", "a", "h">>,
   <<"Y", "E", "S">>, <<"N", "o">>, <<"S", "k", "i", "p">>, <<"o", "k">>}

\* the words ws joined by single spaces
RECURSIVE JoinWords(_)
JoinWords(ws) ==
  IF Len(ws) = 1 THEN ws[1] ELSE ws[1] \o <<" ">> \o JoinWords(Tail(ws))

\* 'Yeah I did it'
SaidYeah ==
  <<"Y", "e", "a", "h", " ", "I", " ", "d", "i", "d", " ", "i", "t">>

\* 'nah not today'
SaidNah ==
  <<"n", "a", "h", " ", "n", "o", "t", " ", "t", "o", "d", "a", "y">>

\* "let's skip that one"
SaidSkip ==
  <<"l", "e", "t", "'", "s", " ", "s", "k", "i", "p", " ", "t", "h", "a",
    "t", " ", "o", "n", "e">>

\* 'maybe kind of'
SaidMaybe ==
  <<"m", "a", "y", "b", "e", " ", "k", "i", "n", "d", " ", "o", "f">>

\* raw transcripts of the recognizer: the four sentences, and every utterance
\* of at most MaxWords words, as it is and with blanks around it
Utterances ==
  LET joined == {JoinWords(ws) : ws \in UNION {[1..n -> Words] : n \in 1..MaxWords}}
  IN  {SaidYeah, SaidNah, SaidSkip, SaidMaybe} \cup joined
        \cup {<<" ">> \o u \o <<" ", " ">> : u \in joined}

\* the words, delimiters and numeric markers the transcripts are made of
Said ==
  {<<"r", "u", "n">>, <<"n", "a", "p">>, <<"a", "n", "d">>,
   <<",">>, <<"a", "l", "s", "o">>, <<".">>,
   <<"n", "e", "x", "t">>, <<"f", "i", "n", "a", "l", "l", "y">>, <<"l", "a", "s", "t", "l", "y">>,
   <<"1", ".">>, <<"2", ")">>, <<"r", "u", "n", ",">>,
   <<"n", "a", "p", ".">>}

\* longer transcripts: the two of the documentation, more than maxGoals
\* fragments, and several delimiters in one transcript
SaidAtLength ==
  {<<"e", "x", "e", "r", "c", "i", "s", "e", " ", "d", "a", "i", "l", "y",
     " ", "a", "n", "d", " ", "r", "e", "a", "d", " ", "m", "o", "r", "e",
     " ", "a", "n", "d", " ", "m", "e", "d", "i", "t", "a", "t", "e">>,
   <<"1", ".", " ", "e", "x", "e", "r", "c", "i", "s", "e", " ", "d", "a",
     "i", "l", "y", " ", "2", ")", " ", "r", "e", "a", "d", " ", "m", "o",
     "r", "e", " ", "3", ".", " ", "m", "e", "d", "i", "t", "a", "t", "e">>,
   <<"a", " ", "a", "n", "d", " ", "b", " ", "a", "n", "d", " ", "c", " ",
     "a", "n", "d", " ", "d", " ", "a", "n", "d", " ", "e", " ", "a", "n",
     "d", " ", "f">>,
   <<"1", ".", " ", "a", " ", "2", ".", " ", "b", " ", "3", ".", " ", "c",
     " ", "4", ".", " ", "d", " ", "5", ".", " ", "e", " ", "6", ".", " ",
     "f">>,
   <<"a", ",", " ", "b", ",", " ", "c", ",", " ", "d", ",", " ", "e", ",",
     " ", "f", ",", " ", "g">>,
   <<"r", "u", "n", " ", "l", "a", "s", "t", "l", "y", " ", "n", "a", "p",
     " ", "f", "i", "n", "a", "l", "l", "y", " ", "w", "a", "l", "k", " ",
     "n", "e", "x", "t", " ", "r", "e", "a", "d", ".", "r", "e", "s", "t",
     " ", "a", "l", "s", "o", " ", "s", "l", "e", "e", "p", ",", "e", "a",
     "t", " ", "a", "n", "d", " ", "s", "w", "i", "m">>,
   <<"r", "u", "n", " ", "l", "a", "s", "t", "l", "y", " ", "n", "a", "p",
     " ", "f", "i", "n", "a", "l", "l", "y", " ", "w", "a", "l", "k", " ",
     "n", "e", "x", "t", " ", "r", "e", "a", "d", ".", "r", "e", "s", "t",
     " ", "a", "l", "s", "o", " ", "s", "l", "e", "e", "p", ",", "e", "a",
     "t">>,
   <<"r", "u", "n", " ", "l", "a", "s", "t", "l", "y", " ", "n", "a", "p",
     " ", "f", "i", "n", "a", "l", "l", "y", " ", "w", "a", "l", "k", " ",
     "n", "e", "x", "t", " ", "r", "e", "a", "d", ".", "r", "e", "s", "t",
     " ", "a", "l", "s", "o", " ", "s", "l", "e", "e", "p">>,
   <<"r", "u", "n", " ", "l", "a", "s", "t", "l", "y", " ", "n", "a", "p",
     " ", "f", "i", "n", "a", "l", "l", "y", " ", "w", "a", "l", "k", " ",
     "n", "e", "x", "t", " ", "r", "e", "a", "d", ".", "r", "e", "s", "t">>,
   <<"r", "u", "n", " ", "l", "a", "s", "t", "l", "y", " ", "n", "a", "p",
     " ", "f", "i", "n", "a", "l", "l", "y", " ", "w", "a", "l", "k", " ",
     "n", "e", "x", "t", " ", "r", "e", "a", "d">>,
   <<"r", "u", "n", " ", "l", "a", "s", "t", "l", "y", " ", "n", "a", "p",
     " ", "f", "i", "n", "a", "l", "l", "y", " ", "w", "a", "l", "k">>,
   <<"r", "u", "n", " ", "l", "a", "s", "t", "l", "y", " ", "n", "a", "p">>}

\* the final transcript of a run of the recognizer: up to MaxSaid words, or
\* one of the longer transcripts, alone or after an empty result
FinalResults ==
  {<<JoinWords(ws)>> : ws \in UNION {[1..n -> Said] : n \in 1..MaxSaid}}
    \cup {<<t>> : t \in SaidAtLength} \cup {<<<<>>, t>> : t \in SaidAtLength}
    \cup {<<<<>>>>, <<<<>>, <<>>>>}

\* VoiceGoalsInput after stopListening, with the results of the run in
\* lastResults and the end event of the recognizer to come
InitExtract ==
  /\ tts = [providerNames |-> <<>>, currentProviderIndex |-> 0, isPlaying |-> FALSE,
            currentAudio |-> 0, voices |-> FALSE]
  /\ InitTracker(FALSE)
  /\ InitRest
  /\ \E results \in FinalResults :
       voiceGoalsInput = [userId |-> TRUE, isListening |-> FALSE, lastResults |-> results,
                          recognition |-> "stopping", sending |-> <<>>,
                          page |-> [error |-> "", loading |-> FALSE]]

NextExtract == GoalsRecEnd

\* hours ahead of UTC of the time zones the goals are confirmed in: Los
\* Angeles in summer, UTC, Tokyo
UtcOffsets == {0 - 7, 0, 9}

\* the tracker of a signed-in user, constructed at 2023-07-29T00:00Z in one of
\* the time zones, with WebSpeech as its only provider
InitDates ==
  /\ tts = initTTS(FALSE)
  /\ InitTracker(TRUE)
  /\ InitGoalsInput(FALSE)
  /\ fishAudio = [audioElement |-> 0]
  /\ synth = <<>>
  /\ calls = [c \in Calls |-> FreeCall]
  /\ recognition = [state |-> "idle", heard |-> <<>>]
  /\ obs = [sessions |-> 0, restarts |-> 0, closed |-> {}, errored |-> {}, posts |-> 0,
            refused |-> 0, started |-> 0]
  /\ \E utcOffset \in UtcOffsets : clock = [now |-> 0, utcOffset |-> utcOffset]
  /\ InitHabitCheckin

\* one session on the stack {habit_1}, answered with yes, started some hours
\* after the page was loaded
NextDates ==
  \/ Wait
  \/ StartDailyCheck
  \/ FetchStackOk({1})
  \/ RecResult(TYes)
  \/ RecEnd
  \/ SubmitOk
  \/ \E c \in Calls : TimerFires(c) \/ UtteranceEnd(c)

\* what the user says to the check-in page: 'yes', 'No', 'skip it',
\* 'yesterday', 'did not', 'hmm', ' not sure '
CheckinSaid ==
  {<<"y", "e", "s">>, <<"N", "o">>, <<"s", "k", "i", "p", " ", "i", "t">>,
   <<"y", "e", "s", "t", "e", "r", "d", "a", "y">>,
   <<"d", "i", "d", " ", "n", "o", "t">>, <<"h", "m", "m">>,
   <<" ", "n", "o", "t", " ", "s", "u", "r", "e", " ">>}

\* the check-in page before the start button is clicked
InitCheckin ==
  /\ tts = [providerNames |-> <<>>, currentProviderIndex |-> 0, isPlaying |-> FALSE,
            currentAudio |-> 0, voices |-> FALSE]
  /\ InitTracker(FALSE)
  /\ InitGoalsInput(FALSE)
  /\ InitRest

NextCheckin ==
  \/ CheckinStart
  \/ \E keys \in SUBSET Keys \ {{}} : CheckinStackFetched(keys)
  \/ CheckinStackFailed
  \/ CheckinSpoken
  \/ \E transcript \in CheckinSaid : CheckinRecResult(transcript)
  \/ CheckinRecEnd
  \/ \E response \in {"yes", "no", "skip"} : CheckinManual(response)
  \/ CheckinSubmit
  \/ \E success \in BOOLEAN : CheckinPosted(success)

\* goals confirmed by a signed-in user at any hour of the days from
\* 2023-07-29, in one of these time zones
InitWeek ==
  /\ tts = [providerNames |-> <<>>, currentProviderIndex |-> 0, isPlaying |-> FALSE,
            currentAudio |-> 0, voices |-> FALSE]
  /\ InitTracker(FALSE)
  /\ fishAudio = [audioElement |-> 0]
  /\ synth = <<>>
  /\ calls = [c \in Calls |-> FreeCall]
  /\ recognition = [state |-> "idle", heard |-> <<>>]
  /\ obs = [sessions |-> 0, restarts |-> 0, closed |-> {}, errored |-> {}, posts |-> 0,
            refused |-> 0, started |-> 0]
  /\ InitGoalsInput(TRUE)
  /\ \E utcOffset \in UtcOffsets : clock = [now |-> 0, utcOffset |-> utcOffset]
  /\ InitHabitCheckin

NextWeek ==
  \/ Tick
  \/ \E goals \in Confirmed : SendConfirmedGoals(goals)
  \/ \E success \in BOOLEAN : GoalsResponse(success)

\* the tracker listening for the answer to habit 1, its only habit, and the
\* recognizer holding any utterance as its final transcript
InitClassify ==
  /\ tts = [providerNames |-> <<"WebSpeech">>, currentProviderIndex |-> 0,
            isPlaying |-> FALSE, currentAudio |-> 0, voices |-> TRUE]
  /\ trk = [userId |-> TRUE, habitStack |-> [loaded |-> TRUE, keys |-> {1}],
            responses |-> [k \in Keys |-> ""], currentHabitIndex |-> 0,
            isProcessing |-> TRUE, reflection |-> <<>>,
            recognitionContext |-> [type |-> "habit", habit |-> 1],
            fetching |-> 0, posting |-> 0, date |-> 0]
  /\ fishAudio = [audioElement |-> 0]
  /\ synth = <<>>
  /\ calls = [c \in Calls |-> FreeCall]
  /\ obs = [sessions |-> 1, restarts |-> 0, closed |-> {}, errored |-> {}, posts |-> 0,
            refused |-> 0, started |-> 0]
  /\ \E raw \in Utterances : recognition = [state |-> "listening", heard |-> raw]
  /\ InitGoalsInput(FALSE)
  /\ clock = [now |-> 0, utcOffset |-> 0]
  /\ InitHabitCheckin

\* recognition.onresult with the transcript the recognizer holds
Hear == RecResult(recognition.heard)

NextClassify == Hear

\* the dispatcher under an arbitrary client
SpecTTS == InitTTS /\ [][NextTTS]_vars

\* the check-in tracker with its dispatcher and recognizer
Spec == Init /\ [][Next]_vars

\* the check-in tracker over two sessions of a user who answers yes and who
\* may log out
SpecDay == InitDay /\ [][NextDay]_vars

\* a check-in on the two-habit stack where every request succeeds and the
\* user gives an answer to every prompt
SpecAnswers == InitDay /\ [][NextAnswers]_vars

\* the VoiceGoalsInput of the goals page under any order of button presses and
\* recognizer events
SpecGoals == InitGoals /\ [][NextGoals]_vars

\* the extraction of the goals from one transcript, for every transcript
SpecExtract == InitExtract /\ [][NextExtract]_vars

\* the tracker on a page left open over the days
SpecDates == InitDates /\ [][NextDates]_vars

\* a dispatcher whose only provider is WebSpeech, in a browser that has not
\* loaded its voice list yet
InitVoice ==
  /\ tts = TTSServiceNew(<<"WebSpeech">>, "WebSpeech", FALSE)
  /\ InitTracker(FALSE)
  /\ InitGoalsInput(FALSE)
  /\ InitRest

NextVoice ==
  \/ \E c \in Calls : ClientSpeak(c, "text")
  \/ \E c \in Calls, maxRetries \in 0..MaxRetriesArg : FindVoice(c, maxRetries)
  \/ \E c \in Calls : RetryTimer(c)
  \/ VoicesChanged
  \/ \E c \in Calls : TimerFires(c) \/ UtteranceEnd(c) \/ ClientRelease(c)

\* the voice lookup of WebSpeechProvider, called by speak() and by a client;
\* a timer that was set fires
SpecVoice ==
  InitVoice /\ [][NextVoice]_vars /\ \A c \in Calls : WF_vars(RetryTimer(c))

\* the check-in page of a user who answers by voice or with the buttons
SpecCheckin == InitCheckin /\ [][NextCheckin]_vars

\* the goals page, confirming goals as the hours pass
SpecWeek == InitWeek /\ [][NextWeek]_vars

\* the classification of one answer, for every utterance
SpecClassify == InitClassify /\ [][NextClassify]_vars

(* ------------------------------- claims --------------------------------- *)

\* call c makes the step from pending to settled
Settles(c) == calls[c].pc \in Pending /\ calls'[c].pc \in Settled

\* a new speak() call is made in this step for the prompt cont
Prompts(cont) == \E c \in Calls : calls[c].pc = "free" /\ calls'[c].cont = cont

\* recognition.start() succeeds in this step
StartsListening ==
  /\ recognition'.state = "listening"
  /\ recognition.state # "listening" \/ trk'.recognitionContext # trk.recognitionContext

\* C1: with several providers a speak() call whose first attempt fails moves the
\* index by one, circularly, and attempts once more: a call makes at most two
\* attempts, the second on the provider after the first, never on the same one,
\* and its attempt does not fail without a second attempt being made
C1_FailoverOnce ==
  \A c \in Calls :
    LET a == calls[c].attempts
        n == Len(tts.providerNames)
    IN  n > 1 =>
          /\ Len(a) <= 2
          /\ Len(a) = 2 => a[2] = NextProviderIndex(a[1], n) /\ a[2] # a[1]
          /\ (calls[c].outcome = "error" \/ calls[c].audio = "error") => Len(a) = 2

\* C2: at most one utterance is playing at any time, whatever the interleaving
\* of the speak() calls: audio elements playing plus the utterance the synthesis
\* engine is speaking
C2_OneUtterancePlaying ==
  Cardinality({c \in Calls : calls[c].audio = "playing"}
              \cup (IF synth = <<>> THEN {} ELSE {Head(synth)})) <= 1

\* C3: when the second attempt of a speak() call fails too, the promise of
\* speak() is rejected and isPlaying is false
C3_RejectsAfterSecondFailure ==
  [][\A c \in Calls :
       (Settles(c) /\ calls'[c].outcome = "error" /\ Len(calls'[c].attempts) = 2)
         => (calls'[c].pc = "rejected" /\ ~tts'.isPlaying)]_vars

\* C4: when the promise of speak() is fulfilled, the utterance has finished
\* playing and isPlaying is false, with either provider
C4_ResolvedMeansFinished ==
  [][\A c \in Calls :
       (Settles(c) /\ calls'[c].pc = "resolved" /\ calls'[c].outcome = "ok")
         => (calls'[c].audio # "playing" /\ ~tts'.isPlaying)]_vars

\* C5: startDailyCheck() on a tracker whose session is active changes nothing:
\* no second fetch of the habit stack, responses and currentHabitIndex as they were
C5_StartWhileActiveIsNoOp ==
  [][(trk.isProcessing /\ StartDailyCheck)
       => (trk' = trk /\ calls' = calls /\ recognition' = recognition)]_vars

\* C5 witness: startDailyCheck() was called again while the one fetch of the
\* session was in flight
C5_Witness == obs.restarts >= 1 /\ trk.fetching = 1 /\ trk.isProcessing

\* C6: the habits are prompted in stack order: a habit is prompted only when
\* every habit before it is answered or failed, the reflection only when every
\* habit is, and the index never passes a habit that was not prompted
C6_PromptsInStackOrder ==
  [][/\ \A h \in Keys :
          (trk'.isProcessing /\ Prompts([kind |-> "habit", habit |-> h]))
            => {k \in trk'.habitStack.keys : k < h} \subseteq obs'.closed
     /\ (trk'.isProcessing /\ Prompts([kind |-> "reflection", habit |-> 0]))
          => trk'.habitStack.keys \subseteq obs'.closed]_vars

\* C7: recognition.start() for a habit happens only when the speech of that
\* habit's prompt or re-prompt has finished playing
C7_ListensAfterSpeech ==
  [][\A h \in Keys :
       (StartsListening /\ trk'.recognitionContext = [type |-> "habit", habit |-> h])
         => ~\E c \in Calls : /\ calls'[c].cont.kind \in {"habit", "reprompt"}
                              /\ calls'[c].cont.habit = h
                              /\ Speaking(calls', c)]_vars

\* C8: responses[habit] is written at most once per key, with yes, no or skip,
\* and the write comes with exactly one increment of currentHabitIndex
C8_WrittenOnce ==
  [][\A t \in Transcripts :
       (RecResult(t) /\ trk.recognitionContext.type = "habit" /\ Classify(t) # "")
         => /\ trk.responses[trk.recognitionContext.habit] = ""
            /\ trk'.responses[trk.recognitionContext.habit] \in {"yes", "no", "skip"}
            /\ trk'.currentHabitIndex = trk.currentHabitIndex + 1]_vars

\* C9: an ambiguous answer writes nothing and leaves the index; the habit is
\* re-prompted once, and recognition is started for it once, after the
\* re-prompt has been spoken
C9_AmbiguousReprompts ==
  [][/\ \A t \in Transcripts :
          (RecResult(t) /\ trk.recognitionContext.type = "habit" /\ Classify(t) = "")
            => /\ trk'.responses = trk.responses
               /\ trk'.currentHabitIndex = trk.currentHabitIndex
               /\ Prompts([kind |-> "reprompt", habit |-> trk.recognitionContext.habit])
     /\ \A h \in Keys :
          (StartsListening /\ trk'.recognitionContext = [type |-> "habit", habit |-> h])
            => ~\E c \in Calls : /\ calls'[c].cont = [kind |-> "reprompt", habit |-> h]
                                 /\ calls'[c].pc \in Pending]_vars

\* C10: a recognition error while listening for a habit does not end the
\* session: no response is recorded for that habit, then or later, and the
\* next habit of the stack (the reflection after the last habit) is prompted
C10_ErrorGoesOn ==
  [][/\ (RecError /\ trk.isProcessing /\ trk.recognitionContext.type = "habit")
          => LET h == trk.recognitionContext.habit
                 later == {k \in trk.habitStack.keys : k > h}
             IN  /\ trk'.isProcessing
                 /\ trk'.responses = trk.responses
                 /\ IF later = {} THEN Prompts([kind |-> "reflection", habit |-> 0])
                    ELSE Prompts([kind |-> "habit", habit |-> Min(later)])
     /\ \A k \in obs'.errored : trk'.responses[k] = ""]_vars

\* C11: in one session at most one POST to the daily-log endpoint is issued,
\* whatever the order of the speech and recognition events, and a failed
\* submission issues no POST of its own
C11_OnePostPerSession ==
  [][/\ obs'.posts <= 1
     /\ SubmitFail => trk'.posting < trk.posting]_vars

\* C12: every run of submitDailyLog ends with onComplete invoked exactly once
\* and isProcessing false: a run that ends without a POST (no user id, no
\* responses), a run whose POST fails, and a run whose thank-you has been spoken
C12_SubmitReportsAndClears ==
  [][/\ (RecError /\ trk.recognitionContext.type = "reflection"
            /\ trk'.posting = trk.posting)
          => /\ handleSpeechError([World EXCEPT !.recognition.state = "ending"]).onComplete = 1
             /\ ~trk'.isProcessing
     /\ \A t \in DayTranscripts :
          (RecResult(t) /\ trk.recognitionContext.type = "reflection"
             /\ trk'.posting = trk.posting)
            => /\ handleSpeechResult([World EXCEPT !.recognition.state = "ending"], t).onComplete = 1
               /\ ~trk'.isProcessing
     /\ SubmitFail => ~trk'.isProcessing
     /\ \A c \in Calls :
          (UtteranceEnd(c) /\ calls[c].cont.kind = "thanks") => ~trk'.isProcessing]_vars

\* C13: a session that has loaded its stack is never stuck in the active
\* state: while isProcessing is true something is still to come (a speak()
\* call to settle, a recognizer event, a response of the server)
C13_NeverStuck ==
  (trk.isProcessing /\ trk.habitStack.loaded)
    => \/ \E c \in Calls : calls[c].pc \in Pending
       \/ recognition.state # "idle"
       \/ trk.posting > 0
       \/ trk.fetching > 0

\* C14: when the end event finds the session waiting for a habit's response
\* and starts recognition again, it does so for the habit the session is on,
\* without onError and without changing currentHabitIndex
C14_RelistenForCurrentHabit ==
  [][(RecEnd /\ recognition'.state = "listening")
       => /\ trk.recognitionContext.habit = HabitAt(World, trk.currentHabitIndex)
          /\ trk'.recognitionContext = trk.recognitionContext
          /\ trk'.currentHabitIndex = trk.currentHabitIndex
          /\ handleSpeechEnd([World EXCEPT !.recognition.state = "idle"]).onError = 0]_vars

\* C15: the classification of a spoken answer is a total, case-insensitive
\* function into yes, no, skip or ambiguous: yes with an affirmative marker
\* (yes, yeah, yep); no with a negative marker (no, nope, nah) and no
\* affirmative one; skip with 'skip' and neither; ambiguous otherwise, where
\* nothing is recorded.  'Yeah I did it' is yes, 'nah not today' is no,
\* "let's skip that one" is skip, 'maybe kind of' is ambiguous
C15_Classification ==
  recognition.state = "ending" =>
    LET t == ToLowerCase(recognition.heard)
        has(m) == \E i \in 1..Len(t) : i + Len(m) - 1 <= Len(t)
                                         /\ \A j \in 1..Len(m) : t[i + j - 1] = m[j]
        affirmative == has(<<"y", "e", "s">>) \/ has(<<"y", "e", "a", "h">>)
                         \/ has(<<"y", "e", "p">>)
        negative == has(<<"n", "o">>) \/ has(<<"n", "o", "p", "e">>)
                      \/ has(<<"n", "a", "h">>)
        recorded == trk.responses[1]
    IN  /\ affirmative => recorded = "yes"
        /\ (negative /\ ~affirmative) => recorded = "no"
        /\ (has(<<"s", "k", "i", "p">>) /\ ~affirmative /\ ~negative) => recorded = "skip"
        /\ (~has(<<"s", "k", "i", "p">>) /\ ~affirmative /\ ~negative) => recorded = ""
        /\ recognition.heard = SaidYeah => recorded = "yes"
        /\ recognition.heard = SaidNah => recorded = "no"
        /\ recognition.heard = SaidSkip => recorded = "skip"
        /\ recognition.heard = SaidMaybe => recorded = ""
        /\ recognition.heard = <<"Y", "E", "S">> => recorded = "yes"
        /\ recognition.heard = <<" ", "N", "o", " ", " ">> => recorded = "no"

\* C15 witness: 'Yeah I did it' has been heard and recorded as yes
C15_Witness ==
  /\ recognition = [state |-> "ending", heard |-> SaidYeah]
  /\ trk.responses[1] = "yes"

C17_ErrorPostsEmptyReflection ==
  [][(/\ RecError
      /\ trk.recognitionContext.type = "reflection"
      /\ trk.isProcessing
      /\ trk.userId
      /\ \E k \in Keys : trk.responses[k] # ""
      /\ obs.posts = 0
      /\ trk.fetching = 0
      /\ trk.currentHabitIndex = Len(Habits(World))
      /\ \A c \in Calls : calls[c] = FreeCall)
     => LET w == handleSpeechError([World EXCEPT !.recognition.state = "ending"])
        IN  /\ Len(w.requests) = 1
            /\ w.requests[1].reflection = <<>>]_vars

\* C18: startDailyCheck on an inactive tracker with no resolved user id calls
\* onAuthRequired once, issues no habit-stack fetch and speaks nothing, and
\* leaves isProcessing false and responses and currentHabitIndex as they were
C18_NoUserNoSession ==
  [][(StartDailyCheck /\ ~trk.isProcessing /\ ~trk.userId)
     => /\ startDailyCheck(World).onAuthRequired = 1
        /\ trk'.fetching = trk.fetching
        /\ ~trk'.isProcessing
        /\ trk'.responses = trk.responses
        /\ trk'.currentHabitIndex = trk.currentHabitIndex
        /\ calls' = calls]_vars

\* C18 witness: a start has been refused for want of a user id, and the
\* tracker is inactive with no fetch in flight
C18_Witness ==
  /\ obs.refused >= 1
  /\ ~trk.userId
  /\ ~trk.isProcessing
  /\ trk.fetching = 0

\* C19: when the fetch succeeds with a stack that has no non-empty habit
\* slot, the session aborts: no prompt is spoken, nothing is posted, and
\* isProcessing is cleared
C19_EmptyStackAborts ==
  [][FetchStackOk({})
     => /\ \A c \in Calls : calls'[c] # calls[c] => calls'[c] = FreeCall
        /\ trk'.posting = trk.posting
        /\ ~trk'.isProcessing]_vars

\* C20: in VoiceGoalsInput no call and no recognizer event sends a request to
\* the goals endpoint except sendConfirmedGoals(goals), whose request carries
\* those goals; and when the recognizer ends with a non-empty transcript the
\* goals extracted from it go to onFinalResult, once, with
\* requiresConfirmation = true, and nothing is sent
C20_NoPostWithoutConfirmation ==
  [][/\ Len(voiceGoalsInput'.sending) > Len(voiceGoalsInput.sending)
          => \E goals \in Confirmed :
               /\ SendConfirmedGoals(goals)
               /\ SubSeq(voiceGoalsInput'.sending, 1, Len(voiceGoalsInput.sending))
                    = voiceGoalsInput.sending
               /\ Len(voiceGoalsInput'.sending) = Len(voiceGoalsInput.sending) + 1
               /\ voiceGoalsInput'.sending[Len(voiceGoalsInput'.sending)].goals = goals
     /\ (GoalsRecEnd /\ Len(Trim(Join(voiceGoalsInput.lastResults))) > 0)
          => /\ handleEnd([GoalsInput EXCEPT !.vgi.recognition = "idle"]).onFinalResult
                  = <<[transcript |-> Join(voiceGoalsInput.lastResults),
                       goals |-> processTranscriptIntoGoals(
                                   Join(voiceGoalsInput.lastResults)),
                       requiresConfirmation |-> TRUE]>>
             /\ voiceGoalsInput'.sending = voiceGoalsInput.sending]_vars

\* C20 witness: listening has ended with a transcript of two goals, and these
\* goals, confirmed, are on their way to the goals endpoint
C20_Witness ==
  /\ voiceGoalsInput.recognition = "idle"
  /\ Len(Trim(Join(voiceGoalsInput.lastResults))) > 0
  /\ Len(voiceGoalsInput.sending) = 1
  /\ voiceGoalsInput.sending[1].goals
       = processTranscriptIntoGoals(Join(voiceGoalsInput.lastResults))
  /\ Len(voiceGoalsInput.sending[1].goals) = 2

\* the delimiters of the documentation, in their order: ' and ', comma,
\* ' also ', period, ' next ', ' finally ', ' lastly '
Delimiters ==
  <<<<" ", "a", "n", "d", " ">>,
    <<",">>,
    <<" ", "a", "l", "s", "o", " ">>,
    <<".">>,
    <<" ", "n", "e", "x", "t", " ">>,
    <<" ", "f", "i", "n", "a", "l", "l", "y", " ">>,
    <<" ", "l", "a", "s", "t", "l", "y", " ">>>>

\* t contains a numeric marker: digits followed by '.' or ')'
ContainsMarker(t) ==
  \E i \in 1..(Len(t) - 1) : t[i] \in {"0", "1", "2", "3", "4", "5", "6", "7", "8", "9"}
                               /\ t[i + 1] \in {".", ")"}

\* what handleEnd hands to onFinalResult at the end event of the recognizer
Handed == handleEnd([GoalsInput EXCEPT !.vgi.recognition = "idle"]).onFinalResult

\* C21: for a transcript with non-blank content the extraction yields at
\* least one goal; every goal is non-empty and has no blank at either end;
\* without numeric marker and without delimiter the result is the trimmed
\* transcript as the one goal; an empty list comes only from a blank
\* transcript
C21_NeverDropsInput ==
  [][GoalsRecEnd
     => LET transcript == Join(voiceGoalsInput.lastResults)
            goals == processTranscriptIntoGoals(transcript)
        IN  /\ Len(Trim(transcript)) > 0
                 => /\ Len(goals) >= 1
                    /\ Len(Handed) = 1
                    /\ Handed[1].goals = goals
            /\ Len(Trim(transcript)) = 0 => goals = <<>>
            /\ \A k \in 1..Len(goals) :
                 /\ goals[k] # <<>>
                 /\ goals[k][1] # " "
                 /\ goals[k][Len(goals[k])] # " "
            /\ (/\ Len(Trim(transcript)) > 0
                /\ ~ContainsMarker(transcript)
                /\ \A d \in 1..Len(Delimiters) : ~Includes(transcript, Delimiters[d]))
                 => goals = <<Trim(transcript)>>]_vars

\* C21 witness: the recognizer has ended on the transcript '1.', from which
\* nothing is split off and which is kept as the one goal
C21_Witness ==
  /\ voiceGoalsInput.recognition = "idle"
  /\ voiceGoalsInput.lastResults = <<<<"1", ".">>>>
  /\ processTranscriptIntoGoals(<<"1", ".">>) = <<<<"1", ".">>>>

\* the first occurrence of d in t at or after index i, 0 if there is none
FirstAt(t, d, i) ==
  LET at == {j \in i..(Len(t) - Len(d) + 1) : SubSeq(t, j, j + Len(d) - 1) = d}
  IN  IF at = {} THEN 0 ELSE Min(at)

\* t cut at every occurrence of the delimiter d, from left to right
RECURSIVE CutAt(_, _)
CutAt(t, d) ==
  LET j == FirstAt(t, d, 1)
  IN  IF j = 0 THEN <<t>>
      ELSE <<SubSeq(t, 1, j - 1)>> \o CutAt(SubSeq(t, j + Len(d), Len(t)), d)

\* the fragments trimmed, without the empty ones
Fragments(pieces) ==
  SelectSeq([k \in DOMAIN pieces |-> Trim(pieces[k])], LAMBDA piece : piece # <<>>)

\* the first five of the fragments
FirstFive(fragments) ==
  SubSeq(fragments, 1, IF Len(fragments) < 5 THEN Len(fragments) ELSE 5)

C23_FirstDelimiterWins ==
  [][(GoalsRecEnd /\ ~ContainsMarker(Join(voiceGoalsInput.lastResults)))
     => LET transcript == Join(voiceGoalsInput.lastResults)
            goals == processTranscriptIntoGoals(transcript)
            fragments(d) == Fragments(CutAt(transcript, Delimiters[d]))
        IN  /\ \A d \in 1..Len(Delimiters) :
                 (Len(fragments(d)) > 1 /\ \A earlier \in 1..(d - 1) : Len(fragments(earlier)) <= 1)
                   => goals = FirstFive(fragments(d))
            /\ transcript
                 = <<"e", "x", "e", "r", "c", "i", "s", "e", " ", "d", "a", "i", "l", "y", " ">>
                   \o <<"a", "n", "d", " ", "r", "e", "a", "d", " ", "m", "o", "r", "e", " ">>
                   \o <<"a", "n", "d", " ", "m", "e", "d", "i", "t", "a", "t", "e">>
                 => goals = <<<<"e", "x", "e", "r", "c", "i", "s", "e", " ", "d", "a", "i", "l", "y">>,
                              <<"r", "e", "a", "d", " ", "m", "o", "r", "e">>,
                              <<"m", "e", "d", "i", "t", "a", "t", "e">>>>]_vars

\* C23 witness: the recognizer has ended on a transcript that ' lastly ',
\* ' finally ', ' next ' and the period each split in two, and the period
\* was taken
C23_Witness ==
  /\ voiceGoalsInput.recognition = "idle"
  /\ voiceGoalsInput.lastResults
       = <<<<"r", "u", "n", " ", "l", "a", "s", "t", "l", "y", " ", "n", "a", "p", " ", "f", "i", "n", "a", "l", "l", "y", " ">>
           \o <<"w", "a", "l", "k", " ", "n", "e", "x", "t", " ", "r", "e", "a", "d", ".", "r", "e", "s", "t">>>>
  /\ processTranscriptIntoGoals(Join(voiceGoalsInput.lastResults))
       = <<<<"r", "u", "n", " ", "l", "a", "s", "t", "l", "y", " ", "n", "a", "p", " ", "f", "i", "n", "a", "l", "l", "y", " ", "w", "a", "l", "k", " ", "n", "e", "x", "t", " ", "r", "e", "a", "d">>,
           <<"r", "e", "s", "t">>>>

Digits == {"0", "1", "2", "3", "4", "5", "6", "7", "8", "9"}

\* the index after the digits of t that start at index i
AfterDigits(t, i) == Min({j \in i..(Len(t) + 1) : j > Len(t) \/ t[j] \notin Digits})

\* the indices of t where a numeric marker starts: digits followed by '.' or ')'
MarkerStarts(t) ==
  {i \in 1..Len(t) : /\ t[i] \in Digits
                      /\ (i = 1 \/ t[i - 1] \notin Digits)
                      /\ AfterDigits(t, i) <= Len(t)
                      /\ t[AfterDigits(t, i)] \in {".", ")"}}

\* t cut immediately before each numeric marker
CutBeforeMarkers(t) ==
  LET at == SeqOfSet(MarkerStarts(t) \cup {1, Len(t) + 1})
  IN  [k \in 1..(Len(at) - 1) |-> SubSeq(t, at[k], at[k + 1] - 1)]

\* the fragment without the numeric marker it starts with
WithoutMarker(fragment) ==
  IF 1 \in MarkerStarts(fragment)
  THEN SubSeq(fragment, AfterDigits(fragment, 1) + 1, Len(fragment))
  ELSE fragment

\* C24: a transcript with a numeric marker is cut immediately before each
\* marker, the leading marker is taken off each fragment, and no other
\* delimiter is applied (a transcript of which nothing is left that way is
\* kept whole, as in C21); '1. exercise daily 2) read more 3. meditate'
\* yields 'exercise daily', 'read more', 'meditate'
C24_SplitBeforeEachMarker ==
  [][(GoalsRecEnd /\ ContainsMarker(Join(voiceGoalsInput.lastResults)))
     => LET transcript == Join(voiceGoalsInput.lastResults)
            goals == processTranscriptIntoGoals(transcript)
            cut == CutBeforeMarkers(transcript)
            fragments == Fragments([k \in DOMAIN cut |-> WithoutMarker(cut[k])])
        IN  /\ goals = IF fragments = <<>> THEN <<Trim(transcript)>>
                       ELSE FirstFive(fragments)
            /\ transcript
                 = <<"1", ".", " ", "e", "x", "e", "r", "c", "i", "s", "e", " ", "d", "a", "i", "l", "y", " ">>
                   \o <<"2", ")", " ", "r", "e", "a", "d", " ", "m", "o", "r", "e", " ">>
                   \o <<"3", ".", " ", "m", "e", "d", "i", "t", "a", "t", "e">>
                 => goals = <<<<"e", "x", "e", "r", "c", "i", "s", "e", " ", "d", "a", "i", "l", "y">>,
                              <<"r", "e", "a", "d", " ", "m", "o", "r", "e">>,
                              <<"m", "e", "d", "i", "t", "a", "t", "e">>>>]_vars

C26_WeekStartIsLocalSunday ==
  [][\A goals \in Confirmed :
       (SendConfirmedGoals(goals)
          /\ Len(voiceGoalsInput'.sending) > Len(voiceGoalsInput.sending))
       => LET today == LocalDay(clock.now, clock.utcOffset)
              sunday == CHOOSE d \in (today - 6)..today : (d + 6) % 7 = 0
          IN  voiceGoalsInput'.sending[Len(voiceGoalsInput'.sending)].week_start
                = CalendarDate(sunday)]_vars

\* C27: startListening() of a signed-in user while a listening session is
\* still active (isListening is set, or the recognizer has not delivered its
\* end event yet) is a silent no-op: the recognizer is not started again, no
\* error is reported and nothing changes, whatever calls and events came
\* before
C27_StartWhileActiveIsSilent ==
  [][(/\ StartListening
      /\ voiceGoalsInput.userId
      /\ voiceGoalsInput.isListening \/ voiceGoalsInput.recognition # "idle")
     => /\ startListening(GoalsInput).onError = 0
        /\ voiceGoalsInput' = voiceGoalsInput]_vars

\* C28: speak(text) with an empty or missing text, or on a dispatcher without
\* providers, returns a rejected promise; no provider is asked to speak or to
\* stop (the speech queue, the audio elements and the other calls are as they
\* were) and isPlaying, the provider index and the current audio are unchanged
C28_InvalidSpeakTouchesNothing ==
  [][\A c \in Calls, text \in {"", "text"} :
       (ClientSpeak(c, text) /\ (text = "" \/ ~hasProviders(World)))
       => /\ calls'[c].pc = "rejected"
          /\ calls'[c].attempts = <<>>
          /\ \A d \in Calls \ {c} : calls'[d] = calls[d]
          /\ synth' = synth
          /\ fishAudio' = fishAudio
          /\ tts' = tts]_vars

\* C28 witness: a call was rejected for its text while another call is being
\* spoken, and the dispatcher still counts as playing
C28_Witness ==
  \E c \in Calls, d \in Calls :
    /\ calls[c].outcome = "invalid"
    /\ calls[c].pc = "rejected"
    /\ hasProviders(World)
    /\ calls[d].pc \in Pending \/ calls[d].audio = "playing"
    /\ tts.isPlaying

\* C29: when the playback of the audio element of a call fails (play() is
\* rejected, or the element's error event), the call goes the way of any
\* failed attempt: after a first attempt with another provider to go to, a
\* second attempt is made on the next provider; otherwise the promise of
\* speak() is rejected
C29_PlaybackFailureFailsOver ==
  [][\A c \in Calls :
       AudioError(c)
       => IF Len(calls[c].attempts) = 1 /\ Len(tts.providerNames) > 1
          THEN /\ Len(calls'[c].attempts) = 2
               /\ calls'[c].attempts[2]
                    = NextProviderIndex(calls[c].attempts[1], Len(tts.providerNames))
          ELSE calls'[c].pc = "rejected"]_vars

\* C30: every response in a request to the daily-log endpoint is 'yes', 'no'
\* or 'skip', whatever was said; here for the requests of the HabitCheckin
\* page ("" stands for a habit without a response, which the payload leaves
\* out)
C30_ResponsesAreYesNoSkip ==
  \A i \in 1..Len(habitCheckin.posting) :
    \A k \in Keys : habitCheckin.posting[i].responses[k] \in {"", "yes", "no", "skip"}

\* C31: with Fish Audio enabled in the configuration, the tracker's dispatcher
\* starts on the FishAudio provider: as long as the active provider is the one
\* initTTS chose, the first attempt of a speak() call is made on FishAudio
\* (and WebSpeech comes in as the second attempt only)
C31_FishAudioFirst ==
  [][\A c \in Calls :
       (/\ calls[c].attempts = <<>>
        /\ calls'[c].attempts # <<>>
        /\ tts.providerNames = initTTS(TRUE).providerNames
        /\ tts.currentProviderIndex = initTTS(TRUE).currentProviderIndex)
       => tts.providerNames[calls'[c].attempts[1] + 1] = "FishAudio"]_vars

\* C32: once stop() has been called on the dispatcher while a speak() call was
\* in flight or playing, nothing of that call is audible (neither its audio
\* element nor its utterance at the head of the speech queue), and the call
\* makes no further attempt on a provider
C32_StoppedCallStaysSilent ==
  [][\A c \in Calls :
       calls'[c].stopped
       => /\ calls'[c].audio # "playing"
          /\ ~(synth' # <<>> /\ Head(synth') = c)
          /\ calls[c].stopped => calls'[c].attempts = calls[c].attempts]_vars

\* C33: isPlaying is true whenever an utterance of the dispatcher is audible
\* (an audio element playing, or an utterance at the head of the speech
\* queue), with the first provider or with the fallback; and isPlaying is
\* false whenever no speak() call is in flight and nothing is audible
C33_IsPlayingTellsPlayback ==
  /\ (\E c \in Calls : calls[c].audio = "playing" \/ (synth # <<>> /\ Head(synth) = c))
       => tts.isPlaying
  /\ (\A c \in Calls : ~Speaking(calls, c)) /\ synth = <<>>
       => ~tts.isPlaying

\* C34: of the onComplete and onError passed to a speak() call that got past
\* the validation, one is called, once: never more than one call between the
\* two, and exactly one by the time the promise is settled and the audio of
\* the call has ended or failed
C34_OneCallbackOnce ==
  \A c \in Calls :
    calls[c].cont.kind = "client" /\ calls[c].outcome # "invalid"
    => /\ calls[c].onComplete + calls[c].onError <= 1
       /\ (calls[c].pc \in Settled /\ calls[c].audio \in {"none", "ended", "error"})
            => calls[c].onComplete + calls[c].onError = 1

\* C35: whenever the recognizer is listening in habit mode, the habit of
\* recognitionContext, for which handleSpeechResult will record the response,
\* is the habit at currentHabitIndex
C35_ListensForCurrentHabit ==
  (recognition.state = "listening" /\ trk.recognitionContext.type = "habit")
  => trk.recognitionContext.habit = HabitAt(World, trk.currentHabitIndex)

\* C36: the active-provider index of a dispatcher with providers is a valid
\* index into the provider list; it changes only by one circular step, and
\* only when an attempt on the active provider has failed and the call goes on
\* to its second attempt, so that a provider left behind becomes active again
\* only when the provider that took over has failed in turn
C36_IndexMovesByFailoverOnly ==
  [][/\ hasProviders(World)
          => tts'.currentProviderIndex \in 0..(Len(tts.providerNames) - 1)
     /\ tts'.providerNames = tts.providerNames
     /\ tts'.currentProviderIndex # tts.currentProviderIndex
          => /\ tts'.currentProviderIndex
                  = NextProviderIndex(tts.currentProviderIndex, Len(tts.providerNames))
             /\ \E c \in Calls :
                  /\ Len(calls[c].attempts) = 1
                  /\ Len(calls'[c].attempts) = 2
                  /\ calls[c].attempts[1] = tts.currentProviderIndex]_vars

\* C37: the date of the habit-stack request and the date of the daily log are
\* the calendar date, in the user's time zone, of the day the session was
\* started, also when that is a later day than the day the tracker was
\* constructed
C37_DateOfTheSession ==
  [][/\ trk'.fetching > trk.fetching
          => formatDate(trk.date) = CalendarDate(LocalDay(clock.now, clock.utcOffset))
     /\ trk'.posting > trk.posting
          => payload(World).date
               = CalendarDate(LocalDay(obs.started, clock.utcOffset))]_vars

\* the delay b is the delay a multiplied by 1.5, or 1000 ms if that is less
NextDelay(a, b) ==
  IF a.num * 3 <= maxRetryDelay * a.den * 2
  THEN b.num * a.den * 2 = a.num * 3 * b.den
  ELSE b.num = maxRetryDelay * b.den

\* what holds of the activation f of findVoiceWithRetry of a call at pc
LookupWithinBudget(f, pc) ==
  /\ f.retries <= f.maxRetries
  /\ Len(f.waited) = f.retries + (IF pc = "lookup" THEN 1 ELSE 0)
  /\ Len(f.waited) <= f.maxRetries
  /\ f.waited # <<>> => f.waited[1].num = defaultRetryDelay * f.waited[1].den
  /\ \A i \in 1..Len(f.waited) :
       /\ f.waited[i].num <= maxRetryDelay * f.waited[i].den
       /\ i > 1 => NextDelay(f.waited[i - 1], f.waited[i])
  /\ (pc # "lookup" /\ f.voice = "null") => f.retries = f.maxRetries

\* C38: findVoiceWithRetry makes at most maxRetries delayed re-attempts, the
\* first after 100 ms, each next one after 1.5 times the delay before it and
\* never after more than 1000 ms; when the last re-attempt finds no voice it
\* returns null at once, and a speak() that awaits it then submits its
\* utterance (with no voice set, so the engine uses its default voice); every
\* call of it returns
C38_VoiceLookupIsBounded ==
  /\ [](\A c \in Calls : LookupWithinBudget(calls[c].lookup, calls[c].pc))
  /\ [][\A c \in Calls :
          (/\ calls[c].pc = "lookup"
           /\ calls'[c].lookup # calls[c].lookup
           /\ calls[c].lookup.retries + 1 = calls[c].lookup.maxRetries
           /\ ~tts.voices)
          => /\ calls'[c].lookup.voice = "null"
             /\ calls'[c].pc = IF calls[c].lookup.caller = "speak" THEN "timer"
                               ELSE "resolved"
             /\ calls[c].lookup.caller # "speak" => calls'[c].outcome = "null"]_vars
  /\ \A c \in Calls : (calls[c].pc = "lookup") ~> (calls[c].pc # "lookup")

\* C38 witness: a speak() whose lookup used up its five retries has submitted
\* its utterance with no voice, and a lookup with more retries waits 1000 ms
C38_Witness ==
  \E c, d \in Calls :
    /\ calls[c].lookup.caller = "speak"
    /\ calls[c].pc = "timer"
    /\ calls[c].lookup.voice = "null"
    /\ Len(calls[c].lookup.waited) = defaultMaxRetries
    /\ calls[d].pc = "lookup"
    /\ Len(calls[d].lookup.waited) = MaxRetriesArg
    /\ calls[d].lookup.waited[MaxRetriesArg] = Ms(maxRetryDelay)

====
